---- MODULE Spec2Model ----
(***************************************************************************)
(* ParkClassifier (src/AI_parking_detection/src/parking_classifier.py):    *)
(* the per-space stabilization buffer, the processing order, the target    *)
(* selection and the A* route planner, one classify() call per step.       *)
(*                                                                         *)
(* An identifier is a sequence of one-character strings (<<"1","0">> is    *)
(* the identifier "10"), so that int() is modelled by what it parses.      *)
(* A point is a pair <<x, y>> of integers, a polygon a sequence of points. *)
(***************************************************************************)
EXTENDS Integers, Sequences, FiniteSets, TLC

VARIABLES
    car_park_positions,            \* self.car_park_positions: the loaded spaces
    route_points,                  \* self.route_points
    stabilization_frames,          \* self.stabilization_frames (N)
    spot_stable_status_buffer,     \* key -> "Empty" | "Occupied"
    spot_candidate_status_buffer,  \* key -> [new_status, counter]
    threshold,                     \* the threshold argument of the last classify call
    sorted_positions,              \* classify's sorted copy, as indexes into car_park_positions
    space_details,                 \* stats['space_details'] of the last classify call
    route_target,                  \* index into space_details of the target handed to the planner (0: none)
    found_path,                    \* what _find_path_a_star returned (<<>>: None or not called)
    final_route,                   \* the polyline drawn by _draw_pathfinding_route (<<>>: none)
    camera,                        \* the pixel counts the frames can show and the thresholds the caller can pass
    raw_history,                   \* per space: the raw status of the last frame and the length of its run
    stats,                         \* the stats dict the last classify call returned (NoStats: no call yet)
    classify_calls,                \* the classify calls since construction, counted up to N
    pc,                            \* "classifier": classify is called directly; "loop", "done", "raised": monitor_video
    paused,                        \* monitor_video: paused
    frame_count,                   \* monitor_video: frame_count
    should_quit,                   \* monitor_video: ui_state['should_quit']
    tuning_active,                 \* monitor_video: tuning_active
    current_threshold,             \* ParkingMonitor.current_threshold
    frame,                         \* monitor_video: frame, as the pixel counts it shows (<<>>: none read yet)
    pending_key,                   \* the key press waiting for the next cv2.waitKey ("none": no key)
    source,                        \* the video source: "live", or "dead" (every read fails from now on)
    cap_pos,                       \* the position of cap in the source (CAP_PROP_POS_FRAMES)
    released,                      \* cap.release() and writer.release() have run
    duration_minutes,              \* monitor_video: duration_minutes
    time_up,                       \* time.time() > end_time
    classified_since_read,         \* the classify calls since the last successful cap.read()
    processing_params,             \* ParkClassifier.processing_params: the block size and the Gaussian kernel
    positions_file,                \* what the positions file holds
    constructed,                   \* the ParkClassifier construction: the file it read, whether it raised
    denoter,                       \* CoordinateDenoter after read_positions: the file read, the fields set
    generator,                     \* car_park_coordinate_generator after main's load: the file read, the globals set
    events                         \* the events the editing tools have handled

vars == << car_park_positions, route_points, stabilization_frames,
           spot_stable_status_buffer, spot_candidate_status_buffer, threshold,
           sorted_positions, space_details, route_target, found_path,
           final_route, camera, raw_history, stats, classify_calls, pc, paused,
           frame_count,
           should_quit, tuning_active, current_threshold, frame, pending_key,
           source, cap_pos, released, duration_minutes, time_up,
           classified_since_read, processing_params, positions_file,
           constructed, denoter, generator, events >>

\* the fields of the classifier and what classify leaves behind
classifier_vars ==
    << car_park_positions, route_points, stabilization_frames,
       spot_stable_status_buffer, spot_candidate_status_buffer, threshold,
       sorted_positions, space_details, route_target, found_path, final_route,
       camera, raw_history, stats, classify_calls >>

\* the locals of monitor_video and the state of its collaborators
monitor_vars == << pc, paused, frame_count, should_quit, tuning_active,
                   current_threshold, frame, pending_key, source, cap_pos,
                   released, duration_minutes, time_up, classified_since_read,
                   processing_params >>

----------------------------------------------------------------------------
(* Bounds of the model and constants of the program *)

MaxPixelCount == 2

StabilizationFrames == 5

SortSentinel == 99999

ConnectionRadius == 250

StepSize == 10

SafetyMargin == 5

DefaultThreshold == 900

PixelCounts == 0 .. MaxPixelCount

Thresholds == 1 .. MaxPixelCount

Statuses == {"Empty", "Occupied"}

Other(s) == IF s = "Empty" THEN "Occupied" ELSE "Empty"

----------------------------------------------------------------------------
(* Identifiers and int() *)

Digits == {"0", "1", "2", "3", "4", "5", "6", "7", "8", "9"}

DigitVal(c) ==
    CASE c = "0" -> 0 [] c = "1" -> 1 [] c = "2" -> 2 [] c = "3" -> 3
      [] c = "4" -> 4 [] c = "5" -> 5 [] c = "6" -> 6 [] c = "7" -> 7
      [] c = "8" -> 8 [] c = "9" -> 9

\* int(s) succeeds: an optional sign followed by one or more decimal digits
IsInt(s) ==
    LET body == IF Len(s) > 0 /\ s[1] \in {"-", "+"} THEN Tail(s) ELSE s
    IN  Len(body) > 0 /\ \A i \in 1 .. Len(body) : body[i] \in Digits

RECURSIVE DigitsVal(_)
DigitsVal(s) ==
    IF s = << >> THEN 0
    ELSE 10 * DigitsVal(SubSeq(s, 1, Len(s) - 1)) + DigitVal(s[Len(s)])

\* the value of int(s), for s with IsInt(s)
IntVal(s) ==
    IF s[1] = "-" THEN 0 - DigitsVal(Tail(s))
    ELSE IF s[1] = "+" THEN DigitsVal(Tail(s))
    ELSE DigitsVal(s)

\* sort_key(pos): int(pos.get('id', '99999')), 99999 when int() raises
sort_key(pos) ==
    IF pos.has_id
    THEN IF IsInt(pos.id) THEN IntVal(pos.id) ELSE SortSentinel
    ELSE IntVal(<<"9", "9", "9", "9", "9">>)

\* list.sort(key=...) is stable: an element goes after every element whose key
\* is not larger
RECURSIVE InsertByKey(_, _, _)
InsertByKey(sorted, i, positions) ==
    IF sorted = << >> THEN << i >>
    ELSE IF sort_key(positions[i]) < sort_key(positions[Head(sorted)])
         THEN << i >> \o sorted
         ELSE << Head(sorted) >> \o InsertByKey(Tail(sorted), i, positions)

RECURSIVE SortFrom(_, _, _)
SortFrom(sorted, i, positions) ==
    IF i > Len(positions) THEN sorted
    ELSE SortFrom(InsertByKey(sorted, i, positions), i + 1, positions)

\* sorted_positions of classify, as indexes into positions
SortedPositions(positions) == SortFrom(<< >>, 1, positions)

----------------------------------------------------------------------------
(* The stabilization buffer *)

\* the key __init__ files a space's records under
InitKey(pos) == IF pos.has_id THEN pos.id ELSE <<"N", "/", "A">>

\* the key classify looks a space's records up with
ClassifyKey(pos) == IF pos.has_id THEN pos.id ELSE <<"?">>

\* mutant: a count equal to the threshold classified Empty
RawStatusInclusive(count, thr) == IF count <= thr THEN "Empty" ELSE "Occupied"

\* raw_status of one space in one frame
RawStatus(count, thr) == IF count < thr THEN "Empty" ELSE "Occupied"

\* mutant: an agreeing frame does not reset the candidate counter
StabilizeKeepsProgress(raw, stable, cand) ==
    IF raw = stable THEN cand
    ELSE IF raw = cand.new_status THEN [cand EXCEPT !.counter = cand.counter + 1]
    ELSE [new_status |-> raw, counter |-> 1]

\* mutant: the candidate is compared before the stable status
StabilizeCandidateFirst(raw, stable, cand) ==
    IF raw = cand.new_status THEN [cand EXCEPT !.counter = cand.counter + 1]
    ELSE IF raw = stable THEN [cand EXCEPT !.counter = 0]
    ELSE [new_status |-> raw, counter |-> 1]

\* step 3 of the buffer logic for an initialised space: the candidate record
\* after the raw status of this frame
StabilizeCandidate(raw, stable, cand) ==
    IF raw = stable THEN [cand EXCEPT !.counter = 0]
    ELSE IF raw = cand.new_status THEN [cand EXCEPT !.counter = cand.counter + 1]
    ELSE [new_status |-> raw, counter |-> 1]

\* mutant: the candidate is promoted one frame late
PromotesLate(cand, n) == cand.counter > n

\* step 4: the candidate has reached the stability threshold
Promotes(cand, n) == cand.counter >= n

\* one pass of classify's loop body over the space at index i: the buffers
\* after it and the space_details entry it appends
ProcessSpace(pos, count, thr, n, stable_buf, cand_buf) ==
    LET key == ClassifyKey(pos)
        raw == RawStatus(count, thr)
    IN  IF key \notin DOMAIN cand_buf
        THEN [ stable_buf |-> stable_buf, cand_buf |-> cand_buf, raw |-> raw,
               detail |-> [ id |-> key, points |-> pos.points, status |-> raw,
                            pixel_count |-> count, is_empty |-> (raw = "Empty"),
                            irregular |-> pos.irregular ] ]
        ELSE LET stable0 == IF key \in DOMAIN stable_buf THEN stable_buf[key] ELSE raw
                 cand1 == StabilizeCandidate(raw, stable0, cand_buf[key])
                 promote == Promotes(cand1, n)
                 stable1 == IF promote THEN cand1.new_status ELSE stable0
                 cand2 == IF promote THEN [cand1 EXCEPT !.counter = 0] ELSE cand1
                 stable_buf1 == IF promote
                                THEN [k \in DOMAIN stable_buf \cup {key} |->
                                        IF k = key THEN stable1 ELSE stable_buf[k]]
                                ELSE stable_buf
             IN  [ stable_buf |-> stable_buf1,
                   cand_buf |-> [cand_buf EXCEPT ![key] = cand2], raw |-> raw,
                   detail |-> [ id |-> key, points |-> pos.points, status |-> stable1,
                                pixel_count |-> count, is_empty |-> (stable1 = "Empty"),
                                irregular |-> pos.irregular ] ]

\* the loop "for pos in sorted_positions" from position k of the order on; raws
\* collects the raw_status of each pass
RECURSIVE ProcessAll(_, _, _, _, _, _, _, _, _, _)
ProcessAll(order, k, positions, counts, thr, n, stable_buf, cand_buf, details, raws) ==
    IF k > Len(order)
    THEN [stable_buf |-> stable_buf, cand_buf |-> cand_buf, details |-> details,
          raws |-> raws]
    ELSE LET r == ProcessSpace(positions[order[k]], counts[order[k]], thr, n,
                               stable_buf, cand_buf)
         IN  ProcessAll(order, k + 1, positions, counts, thr, n,
                        r.stable_buf, r.cand_buf, Append(details, r.detail),
                        Append(raws, r.raw))

----------------------------------------------------------------------------
(* Geometry *)

SqDist(a, b) == (a[1] - b[1]) * (a[1] - b[1]) + (a[2] - b[2]) * (a[2] - b[2])

\* floor of the square root
ISqrt(n) == CHOOSE r \in 0 .. n : r * r <= n /\ n < (r + 1) * (r + 1)

\* np.linalg.norm(a - b). The route points of the model are chosen with
\* integral pairwise distances, on which the floating-point norm is exact.
Norm(a, b) == ISqrt(SqDist(a, b))

\* int(): truncation toward zero of a / m, m > 0
TruncDiv(a, m) == IF a >= 0 THEN a \div m ELSE 0 - ((0 - a) \div m)

RECURSIVE SumCoord(_, _)
SumCoord(points, c) ==
    IF points = << >> THEN 0 ELSE Head(points)[c] + SumCoord(Tail(points), c)

\* (sum(p[0]) // len(points), sum(p[1]) // len(points)): Python's floor division
Centroid(points) ==
    << SumCoord(points, 1) \div Len(points), SumCoord(points, 2) \div Len(points) >>

\* cv2.pointPolygonTest(pts, pt, True) >= -5. With measureDist the test returns
\* the distance to the nearest edge, made negative when the crossing counter is
\* even; so the result is >= -5 when the point is inside or when the squared
\* distance to some edge is at most 25.
EdgeFrom(pts, i) == IF i = 1 THEN pts[Len(pts)] ELSE pts[i - 1]

EdgeWithin(v0, v, pt, margin) ==
    LET dx == v[1] - v0[1]
        dy == v[2] - v0[2]
        dx1 == pt[1] - v0[1]
        dy1 == pt[2] - v0[2]
        dx2 == pt[1] - v[1]
        dy2 == pt[2] - v[2]
    IN  IF dx1 * dx + dy1 * dy <= 0
        THEN dx1 * dx1 + dy1 * dy1 <= margin * margin
        ELSE IF dx2 * dx + dy2 * dy >= 0
        THEN dx2 * dx2 + dy2 * dy2 <= margin * margin
        ELSE (dy1 * dx - dx1 * dy) * (dy1 * dx - dx1 * dy)
                <= margin * margin * (dx * dx + dy * dy)

EdgeCrossed(v0, v, pt) ==
    LET dx == v[1] - v0[1]
        dy == v[2] - v0[2]
        dx1 == pt[1] - v0[1]
        dy1 == pt[2] - v0[2]
        num == dy1 * dx - dx1 * dy
    IN  IF \/ (v0[2] <= pt[2] /\ v[2] <= pt[2])
           \/ (v0[2] > pt[2] /\ v[2] > pt[2])
           \/ (v0[1] < pt[1] /\ v[1] < pt[1])
        THEN FALSE
        ELSE (IF dy < 0 THEN 0 - num ELSE num) > 0

PointNearPolygon(pts, pt) ==
    \/ \E i \in 1 .. Len(pts) : EdgeWithin(EdgeFrom(pts, i), pts[i], pt, SafetyMargin)
    \/ Cardinality({i \in 1 .. Len(pts) : EdgeCrossed(EdgeFrom(pts, i), pts[i], pt)}) % 2 = 1

\* the i-th sample of the segment p1 -> p2, of num_checks samples
CheckPoint(p1, p2, i, num_checks) ==
    LET m == num_checks - 1
    IN  << TruncDiv(p1[1] * (m - i) + p2[1] * i, m),
           TruncDiv(p1[2] * (m - i) + p2[2] * i, m) >>

\* _segment_intersects_occupied_space(p1, p2, occupied_spaces)
SegmentIntersectsOccupiedSpace(p1, p2, occupied_spaces) ==
    IF occupied_spaces = << >> THEN FALSE
    ELSE IF SqDist(p1, p2) = 0 THEN FALSE
    ELSE LET num_checks == (Norm(p1, p2) \div StepSize) + 2
         IN  \E s \in 1 .. Len(occupied_spaces) :
               \E i \in 0 .. num_checks - 1 :
                 PointNearPolygon(occupied_spaces[s].points,
                                  CheckPoint(p1, p2, i, num_checks))

----------------------------------------------------------------------------
(* The route planner *)

\* mutant: np.argmax in place of np.argmin
GetFarthestRouteNode(points, target_point) ==
    LET best == CHOOSE i \in 1 .. Len(points) :
                  /\ \A j \in 1 .. Len(points) :
                        SqDist(points[i], target_point) >= SqDist(points[j], target_point)
                  /\ \A j \in 1 .. i - 1 :
                        SqDist(points[j], target_point) < SqDist(points[i], target_point)
    IN  points[best]

\* np.argmin over the distances: the first route point at the least distance
GetNearestRouteNode(points, target_point) ==
    LET best == CHOOSE i \in 1 .. Len(points) :
                  /\ \A j \in 1 .. Len(points) :
                        SqDist(points[i], target_point) <= SqDist(points[j], target_point)
                  /\ \A j \in 1 .. i - 1 :
                        SqDist(points[j], target_point) > SqDist(points[i], target_point)
    IN  points[best]

\* mutant: a distance equal to the radius connects
ConnectedInclusive(a, b) == SqDist(a, b) <= ConnectionRadius * ConnectionRadius

\* an edge of the proximity graph
Connected(a, b) == SqDist(a, b) < ConnectionRadius * ConnectionRadius

\* graph[node]: the neighbours in the order the two loops append them
RECURSIVE NeighboursFrom(_, _, _, _)
NeighboursFrom(nodes, node, i, j) ==
    IF i > Len(nodes) THEN << >>
    ELSE IF j > Len(nodes) THEN NeighboursFrom(nodes, node, i + 1, 1)
    ELSE IF nodes[i] = node /\ i # j /\ Connected(nodes[i], nodes[j])
         THEN << nodes[j] >> \o NeighboursFrom(nodes, node, i, j + 1)
         ELSE NeighboursFrom(nodes, node, i, j + 1)

Graph(nodes, node) == NeighboursFrom(nodes, node, 1, 1)

\* Python's order on lists of tuples
RECURSIVE ListLess(_, _)
ListLess(a, b) ==
    IF a = << >> THEN b # << >>
    ELSE IF b = << >> THEN FALSE
    ELSE IF Head(a) = Head(b) THEN ListLess(Tail(a), Tail(b))
    ELSE \/ Head(a)[1] < Head(b)[1]
         \/ (Head(a)[1] = Head(b)[1] /\ Head(a)[2] < Head(b)[2])

\* mutant: the heap turned into a max-priority queue
EntryGreater(a, b) ==
    IF a.f # b.f THEN a.f > b.f
    ELSE IF a.g # b.g THEN a.g > b.g
    ELSE IF a.node # b.node THEN ListLess(<< b.node >>, << a.node >>)
    ELSE ListLess(b.path, a.path)

\* the order of the heap's tuples (f, g, node, path)
EntryLess(a, b) ==
    IF a.f # b.f THEN a.f < b.f
    ELSE IF a.g # b.g THEN a.g < b.g
    ELSE IF a.node # b.node THEN ListLess(<< a.node >>, << b.node >>)
    ELSE ListLess(a.path, b.path)

\* the for-loop over graph[current_node], from neighbour k on
RECURSIVE Expand(_, _, _, _, _, _, _)
Expand(cur, neighbours, k, end_node, occupied, queue, visited_g) ==
    IF k > Len(neighbours) THEN [queue |-> queue, visited_g |-> visited_g]
    ELSE LET nb == neighbours[k]
             new_g == cur.g + Norm(cur.node, nb)
         IN  IF SegmentIntersectsOccupiedSpace(cur.node, nb, occupied)
             THEN Expand(cur, neighbours, k + 1, end_node, occupied, queue, visited_g)
             ELSE IF nb \notin DOMAIN visited_g \/ new_g < visited_g[nb]
             THEN Expand(cur, neighbours, k + 1, end_node, occupied,
                         queue \cup {[f |-> new_g + Norm(nb, end_node), g |-> new_g,
                                      node |-> nb, path |-> Append(cur.path, nb)]},
                         [n \in DOMAIN visited_g \cup {nb} |->
                            IF n = nb THEN new_g ELSE visited_g[n]])
             ELSE Expand(cur, neighbours, k + 1, end_node, occupied, queue, visited_g)

\* the while-loop of _find_path_a_star; << >> stands for None
RECURSIVE AStarLoop(_, _, _, _, _)
AStarLoop(nodes, end_node, occupied, queue, visited_g) ==
    IF queue = {} THEN << >>
    ELSE LET cur == CHOOSE e \in queue : \A o \in queue \ {e} : EntryLess(e, o)
         IN  IF cur.node = end_node THEN cur.path
             ELSE LET r == Expand(cur, Graph(nodes, cur.node), 1, end_node, occupied,
                                  queue \ {cur}, visited_g)
                  IN  AStarLoop(nodes, end_node, occupied, r.queue, r.visited_g)

InRoute(nodes, p) == \E i \in 1 .. Len(nodes) : nodes[i] = p

\* _find_path_a_star(start_node, end_node, occupied_space_details)
FindPathAStar(nodes, start_node, end_node, occupied) ==
    IF ~InRoute(nodes, start_node) \/ ~InRoute(nodes, end_node) THEN << >>
    ELSE AStarLoop(nodes, end_node, occupied,
                   {[f |-> Norm(start_node, end_node), g |-> 0,
                     node |-> start_node, path |-> << start_node >>]},
                   [n \in {start_node} |-> 0])

\* mutant: the first entry when none has is_empty
FirstSpaceFallback(details) ==
    IF \E i \in 1 .. Len(details) : details[i].is_empty
    THEN CHOOSE i \in 1 .. Len(details) :
           details[i].is_empty /\ \A j \in 1 .. i - 1 : ~details[j].is_empty
    ELSE IF details # << >> THEN 1 ELSE 0

\* mutant: the last entry with is_empty
LastEmptySpace(details) ==
    IF \E i \in 1 .. Len(details) : details[i].is_empty
    THEN CHOOSE i \in 1 .. Len(details) :
           details[i].is_empty /\ \A j \in i + 1 .. Len(details) : ~details[j].is_empty
    ELSE 0

\* first_empty_space: the index of the first entry with is_empty, 0 for None
FirstEmptySpace(details) ==
    IF \E i \in 1 .. Len(details) : details[i].is_empty
    THEN CHOOSE i \in 1 .. Len(details) :
           details[i].is_empty /\ \A j \in 1 .. i - 1 : ~details[j].is_empty
    ELSE 0

\* mutant: the filter without its "not"
RECURSIVE EmptySpacesDetails(_)
EmptySpacesDetails(details) ==
    IF details = << >> THEN << >>
    ELSE IF Head(details).is_empty
    THEN << Head(details) >> \o EmptySpacesDetails(Tail(details))
    ELSE EmptySpacesDetails(Tail(details))

\* occupied_spaces_details
RECURSIVE OccupiedSpacesDetails(_)
OccupiedSpacesDetails(details) ==
    IF details = << >> THEN << >>
    ELSE IF Head(details).is_empty THEN OccupiedSpacesDetails(Tail(details))
    ELSE << Head(details) >> \o OccupiedSpacesDetails(Tail(details))

\* mutant: without a path the straight line from the start node is drawn
DrawRouteAlways(nodes, target_space, occupied) ==
    LET start_node == nodes[1]
        target_center == Centroid(target_space.points)
        end_node_before_spot == GetNearestRouteNode(nodes, target_center)
        path == FindPathAStar(nodes, start_node, end_node_before_spot, occupied)
    IN  [ found_path |-> path,
          final_route |-> IF path # << >> THEN Append(path, target_center)
                          ELSE << start_node, target_center >> ]

\* _draw_pathfinding_route: the path found and the polyline drawn
DrawPathfindingRoute(nodes, target_space, occupied) ==
    LET start_node == nodes[1]
        target_center == Centroid(target_space.points)
        end_node_before_spot == GetNearestRouteNode(nodes, target_center)
        path == FindPathAStar(nodes, start_node, end_node_before_spot, occupied)
    IN  [ found_path |-> path,
          final_route |-> IF path # << >> THEN Append(path, target_center) ELSE << >> ]

----------------------------------------------------------------------------
(* The lots of the model *)

MaxFrames == 2

Space(id, points) == [has_id |-> TRUE, id |-> id, points |-> points, irregular |-> FALSE]

\* a record without the 'id' key
SpaceNoId(points) == [has_id |-> FALSE, id |-> << >>, points |-> points, irregular |-> FALSE]

Rect(x0, y0, x1, y1) == << <<x0, y0>>, <<x1, y0>>, <<x1, y1>>, <<x0, y1>> >>

\* route points: three on the line y = 40 and two off it, 40 px from the outer ones
NodeA == <<8, 40>>
NodeB == <<40, 40>>
NodeC == <<72, 40>>
NodeD == <<40, 16>>
NodeE == <<40, 64>>

\* spaces: two across the line y = 40 (between A and B, between B and C), one below C
PolyAB == Rect(24, 38, 28, 42)
PolyBC == Rect(54, 38, 58, 42)
PolyC == Rect(70, 52, 74, 56)
PolyD == Rect(6, 52, 10, 56)

\* a route point 250 px from B and 218 px from C, and a space below it
NodeF == <<290, 40>>
PolyF == Rect(288, 52, 292, 56)

\* a route point 68 px from A and from C, 84 px below D
NodeG == <<40, 100>>

\* a frame of the small camera shows 0 .. MaxPixelCount active pixels under a space
\* and is classified with a threshold of 1 .. MaxPixelCount; a frame of the wide
\* camera shows 100 (a free space) or 1000 (a parked car) and is classified with
\* the default threshold
SmallCamera == [pixel_counts |-> PixelCounts, thresholds |-> Thresholds]

WideCamera == [pixel_counts |-> {100, 1000}, thresholds |-> {DefaultThreshold}]

Lot(positions, points, n, cam) ==
    [positions |-> positions, route_points |-> points, n |-> n, camera |-> cam]

\* one and two spaces, no route: the stabilization buffer for N = 1 .. MaxFrames and
\* for the N of the program
StabilizationLots ==
    { Lot(ps, << >>, n, SmallCamera) :
        ps \in { << Space(<<"1">>, PolyAB) >>,
                 << Space(<<"2">>, PolyBC), SpaceNoId(PolyAB) >> },
        n \in (1 .. MaxFrames) \cup {StabilizationFrames} }

\* identifiers in several input orders, the entry node as the only route point
OrderLots ==
    { Lot(ps, << NodeA >>, 1, WideCamera) :
        ps \in { << Space(<<"1", "0">>, PolyAB), Space(<<"2">>, PolyBC),
                    Space(<<"a">>, PolyC), Space(<<"1">>, PolyD) >>,
                 << Space(<<"a">>, PolyAB), Space(<<"1", "0", "0", "0", "0", "0">>, PolyBC) >>,
                 << Space(<<"b">>, PolyAB), Space(<<"a">>, PolyBC), Space(<<"9", "9", "9", "9", "9">>, PolyC) >>,
                 << Space(<<"2">>, PolyAB), SpaceNoId(PolyBC), Space(<<"1">>, PolyC) >> } }

\* two spaces across the line of the route, several route graphs; and three
\* spaces around the largest graph
RouteLots ==
    { Lot(<< Space(<<"1">>, PolyAB), Space(<<"2">>, PolyBC) >>, rp, 2, WideCamera) :
        rp \in { << NodeA >>,
                 << NodeA, NodeB, NodeC >>,
                 << NodeB, NodeA, NodeC >>,
                 << NodeA, NodeB, NodeC, NodeD >>,
                 << NodeA, NodeD, NodeB, NodeE, NodeC >> } }
    \cup
    { Lot(<< Space(<<"1">>, PolyAB), Space(<<"2">>, PolyBC), Space(<<"3">>, PolyC) >>,
          << NodeA, NodeD, NodeB, NodeE, NodeC >>, 1, WideCamera),
      Lot(<< Space(<<"1">>, PolyD), Space(<<"2">>, PolyF) >>,
          << NodeA, NodeB, NodeC, NodeF >>, 1, WideCamera),
      Lot(<< Space(<<"1">>, PolyAB), Space(<<"2">>, PolyC) >>,
          << NodeA, NodeG, NodeD, NodeC >>, 1, WideCamera) }

\* the three-space lot of the end-to-end scenario: entry node (0,0), a route
\* node at (50,0), space "2" centred at (60,0), spaces "1" and "3" 30 px off the
\* route; a frame shows 100, 500 or 1000 active pixels under a space
ScenarioRoute == << <<0, 0>>, <<50, 0>> >>

ScenarioSpaces ==
    << Space(<<"1">>, Rect(20, 30, 28, 34)), Space(<<"2">>, Rect(56, 0, 64, 1)),
       Space(<<"3">>, Rect(80, 30, 88, 34)) >>

ScenarioCamera == [pixel_counts |-> {100, 500, 1000}, thresholds |-> {DefaultThreshold}]

ScenarioLots == { Lot(ScenarioSpaces, ScenarioRoute, 2, ScenarioCamera) }

Lots == StabilizationLots \cup OrderLots \cup RouteLots

----------------------------------------------------------------------------
(* The positions file and its readers *)

\* rect_width and rect_height of the readers' constructors
RectWidth == 107

RectHeight == 48

\* the file does not exist; open or pickle.load raises; the pickle holds
\* something that is neither a list nor a dict
AbsentFile == [kind |-> "absent", car_park_positions |-> << >>, route_points |-> << >>]

UnreadableFile == [kind |-> "unreadable", car_park_positions |-> << >>, route_points |-> << >>]

OtherFile == [kind |-> "other", car_park_positions |-> << >>, route_points |-> << >>]

\* the old schema: a bare list of spaces
ListFile(items) == [kind |-> "list", car_park_positions |-> items, route_points |-> << >>]

\* the new schema: a dict with 'car_park_positions' and 'route_points'
DictFile(positions, points) ==
    [kind |-> "dict", car_park_positions |-> positions, route_points |-> points]

\* the items of a list: a tuple (x, y), the corner of a rect_width x rect_height
\* rectangle; a pair (points, mode) with mode 'i' for an irregular polygon; a
\* dict (Space, SpaceNoId)
Corner(x, y) ==
    [type |-> "xy", has_id |-> FALSE, id |-> << >>, points |-> << <<x, y>> >>,
     irregular |-> FALSE]

Pair(points, mode) ==
    [type |-> "pair", has_id |-> FALSE, id |-> << >>, points |-> points,
     irregular |-> (mode = "i")]

IsDict(pos) == "type" \notin DOMAIN pos

\* str(n) for a natural number n
DigitChar(d) == CHOOSE c \in Digits : DigitVal(c) = d

RECURSIVE Str(_)
Str(n) == IF n < 10 THEN << DigitChar(n) >> ELSE Append(Str(n \div 10), DigitChar(n % 10))

\* mutant: a pickle that is neither a list nor a dict is not caught
ReadPositionsUncaught(file) ==
    IF file.kind \in {"absent", "unreadable"}
    THEN [car_park_positions |-> << >>, route_points |-> << >>, raised |-> FALSE]
    ELSE IF file.kind = "other"
    THEN [car_park_positions |-> << >>, route_points |-> << >>, raised |-> TRUE]
    ELSE [car_park_positions |-> file.car_park_positions,
          route_points |-> file.route_points, raised |-> FALSE]

\* ParkClassifier._read_positions: ([], []) for a file that is absent or raises
\* (data.get on something that is no dict raises inside the try), the list as it
\* is with no route points, the two entries of the dict
ReadPositions(file) ==
    IF file.kind \in {"absent", "unreadable", "other"}
    THEN [car_park_positions |-> << >>, route_points |-> << >>, raised |-> FALSE]
    ELSE [car_park_positions |-> file.car_park_positions,
          route_points |-> file.route_points, raised |-> FALSE]

\* the buffer initialisation of __init__ calls pos.get on every position: it
\* raises AttributeError on a position that is no dict
BufferInitRaises(positions) == \E i \in 1 .. Len(positions) : ~IsDict(positions[i])

\* spot_id.isdigit(): one or more decimal digits
IsDigit(s) == Len(s) > 0 /\ \A i \in 1 .. Len(s) : s[i] \in Digits

\* CoordinateDenoter._convert_old_format: the numeric identifiers present
ExistingIds(positions) ==
    {DigitsVal(positions[i].id) :
       i \in {j \in 1 .. Len(positions) :
                IsDict(positions[j]) /\ positions[j].has_id /\ IsDigit(positions[j].id)}}

\* _convert_old_format, second loop from position k on: "xy" tuples become
\* rectangles, dicts without 'id' get one, next_id counts up; a (points, mode)
\* pair raises at x + self.rect_width
RECURSIVE ConvertFrom(_, _, _, _)
ConvertFrom(positions, k, next_id, converted) ==
    IF k > Len(positions) THEN [car_park_positions |-> converted, raised |-> FALSE]
    ELSE LET pos == positions[k]
         IN  IF ~IsDict(pos) /\ pos.type = "pair"
             THEN [car_park_positions |-> converted, raised |-> TRUE]
             ELSE IF ~IsDict(pos)
             THEN LET x == pos.points[1][1]
                      y == pos.points[1][2]
                  IN  ConvertFrom(positions, k + 1, next_id + 1,
                          Append(converted,
                                 Space(Str(next_id),
                                       << <<x, y>>, <<x + RectWidth, y>>,
                                          <<x + RectWidth, y + RectHeight>>,
                                          <<x, y + RectHeight>> >>)))
             ELSE IF ~pos.has_id
             THEN ConvertFrom(positions, k + 1, next_id + 1,
                              Append(converted, [pos EXCEPT !.has_id = TRUE,
                                                            !.id = Str(next_id)]))
             ELSE ConvertFrom(positions, k + 1, next_id, Append(converted, pos))

ConvertOldFormat(positions) ==
    LET existing_ids == ExistingIds(positions)
        next_id == IF existing_ids # {}
                   THEN (CHOOSE m \in existing_ids : \A o \in existing_ids : m >= o) + 1
                   ELSE 1
    IN  ConvertFrom(positions, 1, next_id, << >>)

\* CoordinateDenoter.read_positions: the fields after the call and whether the
\* file is saved again (save_positions, in the new schema)
DenoterReadPositions(file) ==
    IF file.kind \in {"absent", "unreadable", "other"}
    THEN [car_park_positions |-> << >>, route_points |-> << >>, saved |-> FALSE]
    ELSE LET c == ConvertOldFormat(file.car_park_positions)
         IN  IF c.raised
             THEN [car_park_positions |-> << >>, route_points |-> << >>, saved |-> FALSE]
             ELSE [car_park_positions |-> c.car_park_positions,
                   route_points |-> file.route_points,
                   saved |-> (c.car_park_positions # file.car_park_positions)]

\* car_park_coordinate_generator.main: an item of a list that is no dict becomes
\* {'id': str(i+1), 'points': it[0], 'irregular': it[1] == 'i'}; it[0] of a
\* tuple (x, y) is the number x, kept here as the one-element sequence <<x>>
GeneratorItem(it, i) ==
    IF IsDict(it) THEN it
    ELSE [has_id |-> TRUE, id |-> Str(i), irregular |-> it.irregular,
          points |-> IF it.type = "pair" THEN it.points ELSE << it.points[1][1] >>]

GeneratorLoad(file) ==
    IF file.kind \in {"absent", "unreadable", "other"}
    THEN [car_park_positions |-> << >>, route_points |-> << >>]
    ELSE IF file.kind = "dict"
    THEN [car_park_positions |-> file.car_park_positions,
          route_points |-> file.route_points]
    ELSE [car_park_positions |->
            [i \in 1 .. Len(file.car_park_positions) |->
               GeneratorItem(file.car_park_positions[i], i)],
          route_points |-> << >>]

\* a reader that has not run
NotRun == [ran |-> FALSE]

----------------------------------------------------------------------------
(* The state machine *)

\* no classify call has returned yet
NoStats ==
    [ empty_spaces |-> 0, occupied_spaces |-> 0, total_spaces |-> 0,
      occupancy_rate |-> [num |-> 0, den |-> 1], space_details |-> << >>,
      returned |-> FALSE ]

\* the number of entries of space_details with is_empty = b
RECURSIVE CountSpaces(_, _)
CountSpaces(details, b) ==
    IF details = << >> THEN 0
    ELSE (IF Head(details).is_empty = b THEN 1 ELSE 0) + CountSpaces(Tail(details), b)

\* mutant: the rate is taken from the empty spaces
StatsRateOfEmpty(positions, details) ==
    [ empty_spaces |-> CountSpaces(details, TRUE),
      occupied_spaces |-> CountSpaces(details, FALSE),
      total_spaces |-> Len(positions),
      occupancy_rate |-> IF positions # << >>
                         THEN [num |-> CountSpaces(details, TRUE) * 100,
                               den |-> Len(positions)]
                         ELSE [num |-> 0, den |-> 1],
      space_details |-> details,
      returned |-> TRUE ]

\* the stats dict of classify; occupancy_rate, a float in the program, is kept as
\* the fraction occupied_spaces * 100 / total_spaces, and is 0 for a lot without
\* spaces
Stats(positions, details) ==
    [ empty_spaces |-> CountSpaces(details, TRUE),
      occupied_spaces |-> CountSpaces(details, FALSE),
      total_spaces |-> Len(positions),
      occupancy_rate |-> IF positions # << >>
                         THEN [num |-> CountSpaces(details, FALSE) * 100,
                               den |-> Len(positions)]
                         ELSE [num |-> 0, den |-> 1],
      space_details |-> details,
      returned |-> TRUE ]

\* __init__: the positions as loaded, every space's records under InitKey
InitFrom(lots) ==
    \E lot \in lots :
        /\ car_park_positions = lot.positions
        /\ route_points = lot.route_points
        /\ stabilization_frames = lot.n
        /\ spot_stable_status_buffer =
             [k \in {InitKey(lot.positions[i]) : i \in 1 .. Len(lot.positions)} |-> "Empty"]
        /\ spot_candidate_status_buffer =
             [k \in {InitKey(lot.positions[i]) : i \in 1 .. Len(lot.positions)} |->
                [new_status |-> "Empty", counter |-> 0]]
        /\ threshold = 0
        /\ sorted_positions = << >>
        /\ space_details = << >>
        /\ route_target = 0
        /\ found_path = << >>
        /\ final_route = << >>
        /\ camera = lot.camera
        /\ raw_history = [i \in 1 .. Len(lot.positions) |-> [status |-> "None", len |-> 0]]
        /\ stats = NoStats
        /\ classify_calls = 0
        /\ positions_file = DictFile(lot.positions, lot.route_points)
        /\ constructed = [ran |-> TRUE, file |-> DictFile(lot.positions, lot.route_points),
                          raised |-> FALSE]
        /\ denoter = NotRun
        /\ generator = NotRun
        /\ events = 0

\* the positions file and what its readers made of it
file_vars == << positions_file, constructed, denoter, generator, events >>

\* processing_params of the default configuration (config_manager), the two
\* entries the tuning writes
ConfigParams == [adaptive_threshold_block_size |-> 25, gaussian_blur_kernel |-> <<3, 3>>]

\* what cv2.GaussianBlur and cv2.adaptiveThreshold accept: odd positive kernel
\* sides, an odd block size above 1
ValidParams(params) ==
    /\ params.adaptive_threshold_block_size % 2 = 1
    /\ params.adaptive_threshold_block_size > 1
    /\ \A k \in 1 .. 2 : /\ params.gaussian_blur_kernel[k] > 0
                         /\ params.gaussian_blur_kernel[k] % 2 = 1

\* ParkingMonitor.apply_overrides: an argument that is given (not None, not 0)
\* replaces the entry; threshold_block 0 and blur_kernel <<>> stand for None
ApplyOverrides(params, args) ==
    [adaptive_threshold_block_size |->
        IF args.threshold_block # 0 THEN args.threshold_block
        ELSE params.adaptive_threshold_block_size,
     gaussian_blur_kernel |->
        IF args.blur_kernel # << >> THEN args.blur_kernel
        ELSE params.gaussian_blur_kernel]

\* ParkingMonitor.get_trackbar_values, then the entries monitor_video writes:
\* bs and bk are the positions of the "Block Size" and "Blur Kernel" trackbars
GetTrackbarValues(bars) ==
    LET bs3 == IF bars.bs < 3 THEN 3 ELSE bars.bs
        bs == IF bs3 % 2 = 0 THEN bs3 + 1 ELSE bs3
        bk1 == IF bars.bk < 1 THEN 1 ELSE bars.bk
        bk == IF bk1 % 2 = 0 THEN bk1 + 1 ELSE bk1
    IN  [adaptive_threshold_block_size |-> bs, gaussian_blur_kernel |-> <<bk, bk>>]

\* the positions the two trackbars are read at
Trackbars == [bs : {0, 24}, bk : {0, 4}]

\* the command lines: no override, an even block size, a valid block size, an
\* even kernel
OverrideArgs ==
    { [threshold_block |-> 0, blur_kernel |-> << >>],
      [threshold_block |-> 24, blur_kernel |-> << >>],
      [threshold_block |-> 11, blur_kernel |-> <<5, 5>>],
      [threshold_block |-> 0, blur_kernel |-> <<4, 4>>] }

\* no monitor_video call is running: the classifier is called directly
MonitorIdle ==
    /\ pc = "classifier"
    /\ paused = FALSE
    /\ frame_count = 0
    /\ should_quit = FALSE
    /\ tuning_active = FALSE
    /\ current_threshold = 0
    /\ frame = << >>
    /\ pending_key = "none"
    /\ source = "live"
    /\ cap_pos = 0
    /\ released = FALSE
    /\ duration_minutes = 0
    /\ time_up = FALSE
    /\ classified_since_read = 0
    /\ processing_params = ConfigParams

Init == InitFrom(Lots) /\ MonitorIdle

\* the place of space i in the processing order
PlaceOf(order, i) == CHOOSE k \in 1 .. Len(order) : order[k] = i

\* the run of equal raw statuses of one space, its length counted up to N + 1
NextRun(h, raw, n) ==
    IF h.status = raw
    THEN [h EXCEPT !.len = IF h.len > n THEN h.len ELSE h.len + 1]
    ELSE [status |-> raw, len |-> 1]

\* mutant: the sort runs on self.car_park_positions itself, not on a copy
ClassifySortsInPlace(counts, thr) ==
    \E order \in {SortedPositions(car_park_positions)} :
    \E r \in {ProcessAll(order, 1, car_park_positions, counts, thr, stabilization_frames,
                        spot_stable_status_buffer, spot_candidate_status_buffer,
                        << >>, << >>)} :
    \E first_empty_space \in {FirstEmptySpace(r.details)} :
    \E route \in {IF first_empty_space # 0 /\ route_points # << >>
                  THEN DrawPathfindingRoute(route_points, r.details[first_empty_space],
                                            OccupiedSpacesDetails(r.details))
                  ELSE [found_path |-> << >>, final_route |-> << >>]} :
        /\ threshold' = thr
        /\ sorted_positions' = order
        /\ spot_stable_status_buffer' = r.stable_buf
        /\ spot_candidate_status_buffer' = r.cand_buf
        /\ space_details' = r.details
        /\ route_target' = IF first_empty_space # 0 /\ route_points # << >>
                           THEN first_empty_space ELSE 0
        /\ found_path' = route.found_path
        /\ final_route' = route.final_route
        /\ raw_history' = [i \in DOMAIN raw_history |->
                             NextRun(raw_history[i], r.raws[PlaceOf(order, i)],
                                     stabilization_frames)]
        /\ stats' = Stats(car_park_positions, r.details)
        /\ classify_calls' = IF classify_calls < stabilization_frames
                             THEN classify_calls + 1 ELSE classify_calls
        /\ car_park_positions' = [k \in 1 .. Len(order) |-> car_park_positions[order[k]]]
        /\ UNCHANGED << route_points, stabilization_frames, camera >>

\* classify(image, processed_image, threshold): counts[i] is the number of non-zero
\* pixels of the processed image under space i
Classify(counts, thr) ==
    \E order \in {SortedPositions(car_park_positions)} :
    \E r \in {ProcessAll(order, 1, car_park_positions, counts, thr, stabilization_frames,
                        spot_stable_status_buffer, spot_candidate_status_buffer,
                        << >>, << >>)} :
    \E first_empty_space \in {FirstEmptySpace(r.details)} :
    \E route \in {IF first_empty_space # 0 /\ route_points # << >>
                  THEN DrawPathfindingRoute(route_points, r.details[first_empty_space],
                                            OccupiedSpacesDetails(r.details))
                  ELSE [found_path |-> << >>, final_route |-> << >>]} :
        /\ threshold' = thr
        /\ sorted_positions' = order
        /\ spot_stable_status_buffer' = r.stable_buf
        /\ spot_candidate_status_buffer' = r.cand_buf
        /\ space_details' = r.details
        /\ route_target' = IF first_empty_space # 0 /\ route_points # << >>
                           THEN first_empty_space ELSE 0
        /\ found_path' = route.found_path
        /\ final_route' = route.final_route
        /\ raw_history' = [i \in DOMAIN raw_history |->
                             NextRun(raw_history[i], r.raws[PlaceOf(order, i)],
                                     stabilization_frames)]
        /\ stats' = Stats(car_park_positions, r.details)
        /\ classify_calls' = IF classify_calls < stabilization_frames
                             THEN classify_calls + 1 ELSE classify_calls
        /\ UNCHANGED << car_park_positions, route_points, stabilization_frames, camera >>

Next ==
    \E thr \in camera.thresholds :
        \E counts \in [1 .. Len(car_park_positions) -> camera.pixel_counts] :
            Classify(counts, thr) /\ UNCHANGED << monitor_vars, file_vars >>

Spec == Init /\ [][Next]_vars

\* the classifier of the end-to-end scenario's lot
ScenarioInit == InitFrom(ScenarioLots) /\ MonitorIdle

ScenarioSpec == ScenarioInit /\ [][Next]_vars

----------------------------------------------------------------------------
(* ParkingMonitor.monitor_video: the processing loop *)

\* the frames acquired in one run of the loop
MaxFrameCount == 3

\* one space, no route points; a frame shows 0 or 1 active pixels under the
\* space and the threshold trackbar stands at 1 or 2
MonitorCamera == [pixel_counts |-> {0, 1}, thresholds |-> {1, 2}]

MonitorLots == { Lot(<< Space(<<"1">>, PolyAB) >>, << >>, 2, MonitorCamera) }

\* the keys the loop acts on: 'q', 'p' and Ctrl+T ("t"); 'h', 'w' and 'r'
\* change nothing of the state kept here
Keys == {"q", "p", "t"}

\* ParkingMonitor.__init__ and monitor_video down to the loop: the classifier
\* is constructed, the source opened, the locals set
MonitorLocals ==
    /\ InitFrom(MonitorLots)
    /\ pc = "loop"
    /\ paused = FALSE
    /\ frame_count = 0
    /\ should_quit = FALSE
    /\ tuning_active = FALSE
    /\ current_threshold \in MonitorCamera.thresholds
    /\ frame = << >>
    /\ pending_key = "none"
    /\ source = "live"
    /\ cap_pos = 0
    /\ released = FALSE
    /\ duration_minutes \in {0, 1}
    /\ time_up = FALSE
    /\ classified_since_read = 0

\* the default configuration, no override on the command line
MonitorInit == MonitorLocals /\ processing_params = ConfigParams

\* main: ParkingMonitor(args.lot), then apply_overrides(args), then monitor_video
OverrideInit ==
    /\ MonitorLocals
    /\ \E args \in OverrideArgs : processing_params = ApplyOverrides(ConfigParams, args)

\* the loop's first test: the exit button was clicked or the run's time is over
QuitCondition == should_quit \/ (duration_minutes > 0 /\ time_up)

\* "if ... : break", then the finally block
QuitLoop ==
    /\ pc = "loop"
    /\ QuitCondition
    /\ pc' = "done"
    /\ released' = TRUE
    /\ UNCHANGED << car_park_positions, route_points, stabilization_frames,
                    spot_stable_status_buffer, spot_candidate_status_buffer,
                    threshold, sorted_positions, space_details, route_target,
                    found_path, final_route, camera, raw_history, stats,
                    classify_calls,
                    paused, frame_count, should_quit, tuning_active,
                    current_threshold, frame, pending_key, source, cap_pos,
                    duration_minutes, time_up, classified_since_read, processing_params, positions_file,
                    constructed, denoter, generator, events >>

\* mutant: a failed read starts the stabilization over
ReadFailureResets(th, bars) ==
    /\ pc = "loop"
    /\ ~QuitCondition
    /\ ~paused
    /\ current_threshold' = IF tuning_active THEN th ELSE current_threshold
    /\ processing_params' = IF tuning_active THEN GetTrackbarValues(bars)
                            ELSE processing_params
    /\ cap_pos' = 0
    /\ spot_candidate_status_buffer' =
          [k \in DOMAIN spot_candidate_status_buffer |->
             [new_status |-> "Empty", counter |-> 0]]
    /\ UNCHANGED << car_park_positions, route_points, stabilization_frames,
                    spot_stable_status_buffer,
                    threshold, sorted_positions, space_details, route_target,
                    found_path, final_route, camera, raw_history, stats,
                    classify_calls,
                    pc, paused, frame_count, should_quit, tuning_active,
                    frame, pending_key, source, released, duration_minutes,
                    time_up, classified_since_read, positions_file, constructed,
                    denoter, generator, events >>

\* an iteration whose cap.read() fails: the trackbars are read when tuning is
\* on, the source is set back to frame 0, "continue"
ReadFailure(th, bars) ==
    /\ pc = "loop"
    /\ ~QuitCondition
    /\ ~paused
    /\ current_threshold' = IF tuning_active THEN th ELSE current_threshold
    /\ processing_params' = IF tuning_active THEN GetTrackbarValues(bars)
                            ELSE processing_params
    /\ cap_pos' = 0
    /\ UNCHANGED << car_park_positions, route_points, stabilization_frames,
                    spot_stable_status_buffer, spot_candidate_status_buffer,
                    threshold, sorted_positions, space_details, route_target,
                    found_path, final_route, camera, raw_history, stats,
                    classify_calls,
                    pc, paused, frame_count, should_quit, tuning_active,
                    frame, pending_key, source, released, duration_minutes,
                    time_up, classified_since_read, positions_file, constructed,
                    denoter, generator, events >>

\* an iteration that reaches implement_process: the trackbars are read when
\* tuning is on, a frame is read unless the loop is paused; cv2 raises on a
\* block size or a kernel side it does not accept and the finally block runs;
\* otherwise the frame at hand is classified with the current threshold, and
\* the key cv2.waitKey returns is acted on
ProcessFrame(th, bars, counts) ==
    /\ pc = "loop"
    /\ ~QuitCondition
    /\ current_threshold' = IF tuning_active THEN th ELSE current_threshold
    /\ processing_params' = IF tuning_active THEN GetTrackbarValues(bars)
                            ELSE processing_params
    /\ IF paused
       THEN /\ frame' = frame
            /\ UNCHANGED << frame_count, cap_pos >>
       ELSE /\ source = "live"
            /\ frame_count < MaxFrameCount
            /\ frame' = counts
            /\ frame_count' = frame_count + 1
            /\ cap_pos' = cap_pos + 1
    /\ IF ValidParams(processing_params')
       THEN /\ classified_since_read' =
                   IF ~paused THEN 1
                   ELSE IF classified_since_read < 2 THEN classified_since_read + 1
                   ELSE 2
            /\ Classify(frame', current_threshold')
            /\ pending_key' = "none"
            /\ pc' = IF pending_key = "q" THEN "done" ELSE "loop"
            /\ released' = (pending_key = "q")
            /\ paused' = IF pending_key = "p" THEN ~paused ELSE paused
            /\ tuning_active' = IF pending_key = "t" THEN ~tuning_active ELSE tuning_active
       ELSE /\ classified_since_read' = IF paused THEN classified_since_read ELSE 0
            /\ pc' = "raised"
            /\ released' = TRUE
            /\ UNCHANGED << classifier_vars, pending_key, paused, tuning_active >>
    /\ UNCHANGED << should_quit, source, duration_minutes, time_up, positions_file,
                    constructed, denoter, generator, events >>

\* the user presses a key; it waits for the next cv2.waitKey
PressKey(key) ==
    /\ pc = "loop"
    /\ pending_key = "none"
    /\ pending_key' = key
    /\ UNCHANGED << car_park_positions, route_points, stabilization_frames,
                    spot_stable_status_buffer, spot_candidate_status_buffer,
                    threshold, sorted_positions, space_details, route_target,
                    found_path, final_route, camera, raw_history, stats,
                    classify_calls,
                    pc, paused, frame_count, should_quit, tuning_active,
                    current_threshold, frame, source, cap_pos, released,
                    duration_minutes, time_up, classified_since_read, processing_params, positions_file,
                    constructed, denoter, generator, events >>

\* mouse_callback for a left click inside btn_rect
MouseCallback ==
    /\ pc = "loop"
    /\ ~should_quit
    /\ should_quit' = TRUE
    /\ UNCHANGED << car_park_positions, route_points, stabilization_frames,
                    spot_stable_status_buffer, spot_candidate_status_buffer,
                    threshold, sorted_positions, space_details, route_target,
                    found_path, final_route, camera, raw_history, stats,
                    classify_calls,
                    pc, paused, frame_count, tuning_active, current_threshold,
                    frame, pending_key, source, cap_pos, released,
                    duration_minutes, time_up, classified_since_read, processing_params, positions_file,
                    constructed, denoter, generator, events >>

\* the source stops delivering frames for good
SourceDies ==
    /\ pc = "loop"
    /\ source = "live"
    /\ source' = "dead"
    /\ UNCHANGED << car_park_positions, route_points, stabilization_frames,
                    spot_stable_status_buffer, spot_candidate_status_buffer,
                    threshold, sorted_positions, space_details, route_target,
                    found_path, final_route, camera, raw_history, stats,
                    classify_calls,
                    pc, paused, frame_count, should_quit, tuning_active,
                    current_threshold, frame, pending_key, cap_pos, released,
                    duration_minutes, time_up, classified_since_read, processing_params, positions_file,
                    constructed, denoter, generator, events >>

\* the clock passes end_time
EndTimePasses ==
    /\ pc = "loop"
    /\ duration_minutes > 0
    /\ ~time_up
    /\ time_up' = TRUE
    /\ UNCHANGED << car_park_positions, route_points, stabilization_frames,
                    spot_stable_status_buffer, spot_candidate_status_buffer,
                    threshold, sorted_positions, space_details, route_target,
                    found_path, final_route, camera, raw_history, stats,
                    classify_calls,
                    pc, paused, frame_count, should_quit, tuning_active,
                    current_threshold, frame, pending_key, source, cap_pos,
                    released, duration_minutes, classified_since_read,
                    processing_params, positions_file, constructed, denoter, generator, events >>

MonitorNext ==
    \/ QuitLoop
    \/ \E th \in camera.thresholds : \E bars \in Trackbars : ReadFailure(th, bars)
    \/ \E th \in camera.thresholds : \E bars \in Trackbars :
          \E counts \in [1 .. Len(car_park_positions) -> camera.pixel_counts] :
             ProcessFrame(th, bars, counts)
    \/ \E key \in Keys : PressKey(key)
    \/ MouseCallback
    \/ SourceDies
    \/ EndTimePasses

MonitorSpec == MonitorInit /\ [][MonitorNext]_vars

\* the monitor started with command-line overrides
OverrideSpec == OverrideInit /\ [][MonitorNext]_vars

----------------------------------------------------------------------------
(* Loading: the positions file, the editors and the classifier's constructor *)

LoadCamera == [pixel_counts |-> {0, 1}, thresholds |-> {1}]

\* old-schema lists: rectangle corners, (points, mode) pairs, dicts without
\* identifiers, empty
OldFiles ==
    { ListFile(<< >>),
      ListFile(<< Corner(8, 16) >>),
      ListFile(<< Corner(200, 16), Corner(8, 16) >>),
      ListFile(<< Pair(PolyAB, "i") >>),
      ListFile(<< Pair(PolyC, "r"), Pair(PolyAB, "i") >>),
      ListFile(<< SpaceNoId(PolyAB) >>),
      ListFile(<< SpaceNoId(PolyC), SpaceNoId(PolyAB) >>) }

LoadFiles ==
    {AbsentFile, UnreadableFile, OtherFile}
      \cup OldFiles
      \cup { ListFile(<< Space(<<"1">>, PolyAB) >>),
             DictFile(<< Space(<<"2">>, PolyC), Space(<<"1">>, PolyAB) >>, << NodeA, NodeB >>),
             DictFile(<< Space(<<"3">>, PolyC), SpaceNoId(PolyAB) >>, << NodeA >>) }

\* before any reader ran
LoadInit ==
    /\ positions_file \in LoadFiles
    /\ constructed = NotRun
    /\ denoter = NotRun
    /\ generator = NotRun
    /\ events = 0
    /\ car_park_positions = << >>
    /\ route_points = << >>
    /\ stabilization_frames = StabilizationFrames
    /\ spot_stable_status_buffer = << >>
    /\ spot_candidate_status_buffer = << >>
    /\ threshold = 0
    /\ sorted_positions = << >>
    /\ space_details = << >>
    /\ route_target = 0
    /\ found_path = << >>
    /\ final_route = << >>
    /\ camera = LoadCamera
    /\ raw_history = << >>
    /\ stats = NoStats
    /\ classify_calls = 0
    /\ pc = "start"
    /\ paused = FALSE
    /\ frame_count = 0
    /\ should_quit = FALSE
    /\ tuning_active = FALSE
    /\ current_threshold = 0
    /\ frame = << >>
    /\ pending_key = "none"
    /\ source = "live"
    /\ cap_pos = 0
    /\ released = FALSE
    /\ duration_minutes = 0
    /\ time_up = FALSE
    /\ classified_since_read = 0
    /\ processing_params = ConfigParams

loop_vars ==
    << paused, frame_count, should_quit, tuning_active, current_threshold, frame,
       pending_key, source, cap_pos, released, duration_minutes, time_up,
       classified_since_read, processing_params >>

\* ParkClassifier.__init__: _read_positions, then the buffers of every position;
\* an exception leaves no classifier
Construct ==
    /\ pc = "start"
    /\ \E r \in {ReadPositions(positions_file)} :
         IF r.raised \/ BufferInitRaises(r.car_park_positions)
         THEN /\ pc' = "raised"
              /\ constructed' = [ran |-> TRUE, file |-> positions_file, raised |-> TRUE]
              /\ UNCHANGED classifier_vars
         ELSE /\ pc' = "classifier"
              /\ constructed' = [ran |-> TRUE, file |-> positions_file, raised |-> FALSE]
              /\ car_park_positions' = r.car_park_positions
              /\ route_points' = r.route_points
              /\ spot_stable_status_buffer' =
                   [k \in {InitKey(r.car_park_positions[i]) :
                             i \in 1 .. Len(r.car_park_positions)} |-> "Empty"]
              /\ spot_candidate_status_buffer' =
                   [k \in {InitKey(r.car_park_positions[i]) :
                             i \in 1 .. Len(r.car_park_positions)} |->
                      [new_status |-> "Empty", counter |-> 0]]
              /\ raw_history' = [i \in 1 .. Len(r.car_park_positions) |->
                                   [status |-> "None", len |-> 0]]
              /\ classify_calls' = 0
              /\ UNCHANGED << stabilization_frames, threshold, sorted_positions,
                              space_details, route_target, found_path, final_route,
                              camera, stats >>
    /\ UNCHANGED << loop_vars, positions_file, denoter, generator, events >>

\* a classify call on the constructed classifier
LoadClassify(counts, thr) ==
    /\ pc = "classifier"
    /\ Classify(counts, thr)
    /\ UNCHANGED << monitor_vars, file_vars >>

\* CoordinateDenoter.read_positions, with the save of _convert_old_format
DenoterRead ==
    /\ ~denoter.ran
    /\ \E r \in {DenoterReadPositions(positions_file)} :
         /\ denoter' = [ran |-> TRUE, file |-> positions_file,
                        car_park_positions |-> r.car_park_positions,
                        route_points |-> r.route_points]
         /\ positions_file' = IF r.saved
                              THEN DictFile(r.car_park_positions, r.route_points)
                              ELSE positions_file
    /\ UNCHANGED << classifier_vars, monitor_vars, constructed, generator, events >>

\* the load at the start of car_park_coordinate_generator.main
GeneratorRead ==
    /\ ~generator.ran
    /\ \E r \in {GeneratorLoad(positions_file)} :
         generator' = [ran |-> TRUE, file |-> positions_file,
                       car_park_positions |-> r.car_park_positions,
                       route_points |-> r.route_points]
    /\ UNCHANGED << classifier_vars, monitor_vars, positions_file, constructed, denoter,
                    events >>

LoadNext ==
    \/ Construct
    \/ \E thr \in camera.thresholds :
         \E counts \in [1 .. Len(car_park_positions) -> camera.pixel_counts] :
           LoadClassify(counts, thr)
    \/ DenoterRead
    \/ GeneratorRead

LoadSpec == LoadInit /\ [][LoadNext]_vars

----------------------------------------------------------------------------
(* Vocabulary of the properties *)

Spaces == DOMAIN raw_history

\* the spaces whose records classify finds: those loaded with an 'id' key
Identified == {i \in Spaces : car_park_positions[i].has_id}

\* the records __init__ created for space i
StableOf(i) == spot_stable_status_buffer[InitKey(car_park_positions[i])]

CandidateOf(i) == spot_candidate_status_buffer[InitKey(car_park_positions[i])]

\* the raw status of space i in the last frame and the number of consecutive
\* frames, up to the last, that showed it
RawOf(i) == raw_history[i].status

RunOf(i) == raw_history[i].len

----------------------------------------------------------------------------
(* C1: for every space, a raw status opposite to the stable status s of the
   space's record, held for N consecutive frames counted from the frame on
   which the raw status flipped, changes the stable status on the Nth of those
   frames and not before: the stable status is unchanged by every frame that
   leaves the run shorter than N, and the frame that makes the run N long
   replaces s by the raw status. *)
C1_SustainedFlip ==
    [][ \A i \in Spaces :
          /\ RunOf(i)' < stabilization_frames => StableOf(i)' = StableOf(i)
          /\ (RunOf(i)' = stabilization_frames /\ RawOf(i)' # StableOf(i))
                => StableOf(i)' = RawOf(i)' ]_vars

(* C2: the stable status changes at a frame only if that frame ends a run of
   at least N frames whose raw status is the new stable status; and a frame
   whose raw status agrees with the stable status, coming after a run of
   fewer than N disagreeing frames, leaves the stable status unchanged and
   the candidate counter at 0. *)
C2_FullRunOnly ==
    [][ \A i \in Spaces :
          /\ StableOf(i)' # StableOf(i)
                => RawOf(i)' = StableOf(i)' /\ RunOf(i)' >= stabilization_frames
          /\ ( /\ RawOf(i) = Other(StableOf(i))
               /\ RunOf(i) < stabilization_frames
               /\ RawOf(i)' = StableOf(i) )
                => StableOf(i)' = StableOf(i) /\ CandidateOf(i)'.counter = 0 ]_vars

\* an interrupted run: the candidate differs from the stable status, its counter
\* was set back to 0 by the agreeing frame just processed
C2_Witness ==
    \E i \in Identified :
        /\ stabilization_frames >= 3
        /\ CandidateOf(i).new_status # StableOf(i)
        /\ CandidateOf(i).counter = 0
        /\ RawOf(i) = StableOf(i) /\ RunOf(i) = 1

(* C3: once the raw status of a space equals its stable status, a further frame
   with the same raw status leaves the stable status unchanged and the candidate
   counter at 0. *)
C3_Idempotence ==
    [][ \A i \in Spaces :
          (RawOf(i) = StableOf(i) /\ RawOf(i)' = RawOf(i))
            => /\ StableOf(i)' = StableOf(i)
               /\ CandidateOf(i)'.counter = 0
               /\ CandidateOf(i).counter = 0 ]_vars

\* a space promoted to Occupied whose raw status stayed Occupied afterwards
C3_Witness ==
    \E i \in Identified :
        /\ StableOf(i) = "Occupied" /\ RawOf(i) = "Occupied"
        /\ RunOf(i) > stabilization_frames
        /\ CandidateOf(i).counter = 0

(* C4: the status reported in space_details is, for every loaded space, the
   stable status of the space after this frame. *)
C4_ReportsStable ==
    \A k \in 1 .. Len(space_details) :
        space_details[k].status = StableOf(sorted_positions[k])

(* C5: the raw status of a space is Empty exactly when its pixel count is below
   the threshold (a count equal to the threshold is Occupied), and of two
   spaces of a frame the one with the larger count is Occupied when the one
   with the smaller count is. *)
C5_RawClassification ==
    /\ \A k \in 1 .. Len(space_details) :
          /\ RawOf(sorted_positions[k]) \in Statuses
          /\ RawOf(sorted_positions[k]) = "Empty"
                <=> space_details[k].pixel_count < threshold
    /\ \A k, l \in 1 .. Len(space_details) :
          ( /\ space_details[k].pixel_count <= space_details[l].pixel_count
            /\ RawOf(sorted_positions[k]) = "Occupied" )
            => RawOf(sorted_positions[l]) = "Occupied"

\* a count equal to the threshold, classified Occupied, beside a smaller count
\* classified Empty
C5_Witness ==
    \E k, l \in 1 .. Len(space_details) :
        /\ space_details[k].pixel_count = threshold
        /\ RawOf(sorted_positions[k]) = "Occupied"
        /\ space_details[l].pixel_count = threshold - 1
        /\ RawOf(sorted_positions[l]) = "Empty"

(* The identifier ordering of the processing order: numeric identifiers in
   ascending order of their value, every non-numeric identifier after all
   numeric ones, equal ones in input order. *)
IsNumeric(i) == car_park_positions[i].has_id /\ IsInt(car_park_positions[i].id)

NumericValue(i) == IntVal(car_park_positions[i].id)

OrderedBefore(i, j) ==
    \/ IsNumeric(i) /\ IsNumeric(j) /\ NumericValue(i) < NumericValue(j)
    \/ IsNumeric(i) /\ ~IsNumeric(j)
    \/ IsNumeric(i) /\ IsNumeric(j) /\ NumericValue(i) = NumericValue(j) /\ i < j
    \/ ~IsNumeric(i) /\ ~IsNumeric(j) /\ i < j

(* C6: classify processes the spaces in the identifier ordering, whatever the
   numeric values of the identifiers. *)
C6_ProcessingOrder ==
    \A k, l \in 1 .. Len(sorted_positions) :
        k < l => OrderedBefore(sorted_positions[k], sorted_positions[l])

(* C7: in every frame in which some space has stable status Empty (and there
   are route points to plan on), the space handed to the planner has stable
   status Empty and comes before every other Empty space in the identifier
   ordering. *)
C7_TargetSelection ==
    ( /\ space_details # << >>
      /\ route_points # << >>
      /\ \E i \in Spaces : StableOf(i) = "Empty" )
    => /\ route_target # 0
       /\ StableOf(sorted_positions[route_target]) = "Empty"
       /\ \A j \in Spaces \ {sorted_positions[route_target]} :
             StableOf(j) = "Empty" => OrderedBefore(sorted_positions[route_target], j)

\* the spaces whose stable status is Occupied after this frame, in processing order
StableOccupiedSpaces ==
    LET occ == SelectSeq(sorted_positions, LAMBDA i : StableOf(i) = "Occupied")
    IN  [k \in 1 .. Len(occ) |-> [points |-> car_park_positions[occ[k]].points]]

MinOf(S) == CHOOSE x \in S : \A y \in S : x <= y

MaxOf(S) == CHOOSE x \in S : \A y \in S : x >= y

\* an axis-parallel rectangle lies across the horizontal segment a - b: it holds
\* a point of the segment strictly between its ends
Straddles(points, a, b) ==
    LET xs == {points[k][1] : k \in 1 .. Len(points)}
        ys == {points[k][2] : k \in 1 .. Len(points)}
    IN  /\ a[2] = b[2]
        /\ MinOf(ys) <= a[2] /\ a[2] <= MaxOf(ys)
        /\ \E x \in MinOf({a[1], b[1]}) + 1 .. MaxOf({a[1], b[1]}) - 1 :
              MinOf(xs) <= x /\ x <= MaxOf(xs)

(* C8: no hop of the path returned by _find_path_a_star intersects, by the
   planner's own segment test, a space whose stable status is Occupied in this
   frame; and no hop is a direct edge that an Occupied space lies across. *)
C8_RouteAvoidance ==
    \A k \in 1 .. Len(found_path) - 1 :
        /\ ~SegmentIntersectsOccupiedSpace(found_path[k], found_path[k + 1],
                                           StableOccupiedSpaces)
        /\ \A s \in 1 .. Len(StableOccupiedSpaces) :
              ~Straddles(StableOccupiedSpaces[s].points, found_path[k], found_path[k + 1])

\* a detour: the path runs between two route points on one line with a third,
\* through a point off the line, while an Occupied space lies across the direct
\* edge
C8_Witness ==
    /\ Len(found_path) = 3
    /\ found_path[2][2] # found_path[1][2]
    /\ \E j \in 1 .. Len(route_points) :
          /\ route_points[j] \notin {found_path[1], found_path[3]}
          /\ route_points[j][2] = found_path[1][2]
    /\ \E s \in 1 .. Len(StableOccupiedSpaces) :
          Straddles(StableOccupiedSpaces[s].points, found_path[1], found_path[3])

(* C9: no hop of the rendered route, the last hop to the target centroid
   included, passes inside or within the safety margin of a space whose stable
   status is Occupied, and neither does the start node. *)
C9_RenderedRouteClear ==
    final_route # << >> =>
        /\ \A k \in 1 .. Len(final_route) - 1 :
              ~SegmentIntersectsOccupiedSpace(final_route[k], final_route[k + 1],
                                              StableOccupiedSpaces)
        /\ \A s \in 1 .. Len(StableOccupiedSpaces) :
              ~PointNearPolygon(StableOccupiedSpaces[s].points, final_route[1])

\* the centroid of the space handed to the planner
TargetCenter == Centroid(space_details[route_target].points)

NearestToTarget(p) ==
    \A j \in 1 .. Len(route_points) :
        SqDist(p, TargetCenter) <= SqDist(route_points[j], TargetCenter)

(* C10: when a path is found the rendered route is the path followed by the
   target centroid; the path starts at route_points[0], ends at a route point
   nearest to the target centroid, and each of its hops joins two distinct
   route points less than the connection radius apart. When the entry node is
   itself nearest to the target the route is [start, target]. *)
C10_RouteShape ==
    /\ found_path # << >> =>
          /\ route_target # 0
          /\ final_route = Append(found_path, TargetCenter)
          /\ found_path[1] = route_points[1]
          /\ InRoute(route_points, found_path[Len(found_path)])
          /\ NearestToTarget(found_path[Len(found_path)])
          /\ \A k \in 1 .. Len(found_path) - 1 :
                /\ InRoute(route_points, found_path[k + 1])
                /\ found_path[k] # found_path[k + 1]
                /\ SqDist(found_path[k], found_path[k + 1])
                      < ConnectionRadius * ConnectionRadius
    /\ (route_target # 0 /\ NearestToTarget(route_points[1]))
          => final_route = << route_points[1], TargetCenter >>

\* a path of two hops to a target whose nearest route point is not within the
\* connection radius of every other route point
C10_Witness ==
    /\ Len(found_path) = 3
    /\ final_route = Append(found_path, TargetCenter)
    /\ \E j \in 1 .. Len(route_points) :
          SqDist(route_points[j], found_path[3]) >= ConnectionRadius * ConnectionRadius

(* The planner's view of the last frame, and shortest paths computed apart from
   the search of _find_path_a_star *)

\* the obstacles the planner was given by the last classify call
PlannerObstacles == OccupiedSpacesDetails(space_details)

RoutePointSet == {route_points[i] : i \in 1 .. Len(route_points)}

\* a hop the search may take: an edge of the proximity graph whose segment test
\* against the obstacles is negative
UnblockedHop(a, b) ==
    /\ a # b
    /\ SqDist(a, b) < ConnectionRadius * ConnectionRadius
    /\ ~SegmentIntersectsOccupiedSpace(a, b, PlannerObstacles)

\* the sum of the Euclidean lengths of the hops of a path
RECURSIVE PathCost(_)
PathCost(path) ==
    IF Len(path) < 2 THEN 0
    ELSE Norm(path[1], path[2]) + PathCost(Tail(path))

\* Bellman-Ford over the indexes of route_points: d[v] is the least cost of a
\* path of unblocked hops from the entry node to route_points[v] found so far,
\* -1 when none is
RelaxedCost(d, v) ==
    LET via == {d[u] + Norm(route_points[u], route_points[v]) :
                  u \in {w \in 1 .. Len(d) :
                           d[w] >= 0 /\ UnblockedHop(route_points[w], route_points[v])}}
        all == via \cup (IF d[v] >= 0 THEN {d[v]} ELSE {})
    IN  IF all = {} THEN -1 ELSE CHOOSE c \in all : \A o \in all : c <= o

RECURSIVE RelaxFrom(_, _, _)
RelaxFrom(d, v, acc) ==
    IF v > Len(d) THEN acc ELSE RelaxFrom(d, v + 1, Append(acc, RelaxedCost(d, v)))

RECURSIVE RelaxTimes(_, _)
RelaxTimes(d, k) == IF k = 0 THEN d ELSE RelaxTimes(RelaxFrom(d, 1, << >>), k - 1)

\* the least cost of a path of unblocked hops from the entry node to route
\* point p, -1 when there is none
LeastCost(p) ==
    LET d0 == RelaxFrom([v \in 1 .. Len(route_points) |-> IF v = 1 THEN 0 ELSE -1],
                        1, << >>)
    IN  RelaxTimes(d0, Len(route_points))[CHOOSE v \in 1 .. Len(route_points) :
                                              route_points[v] = p]

(* C11: the total cost of the path _find_path_a_star returns is the least cost
   of any path of unblocked hops of the proximity graph from the entry node to
   the path's last node. *)
C11_ShortestPath ==
    found_path # << >> =>
        PathCost(found_path) = LeastCost(found_path[Len(found_path)])

\* the search chose the cheaper of two detours around a blocked direct edge
C11_Witness ==
    /\ Len(found_path) = 3
    /\ ~UnblockedHop(found_path[1], found_path[3])
    /\ \E v \in RoutePointSet :
          /\ UnblockedHop(found_path[1], v) /\ UnblockedHop(v, found_path[3])
          /\ Norm(found_path[1], v) + Norm(v, found_path[3]) > PathCost(found_path)

\* the frame of the end-to-end scenario: counts 1000, 500 and 100 against the
\* threshold 900, space "1" Occupied, spaces "2" and "3" Empty, and no obstacle
\* within the margin of the segment between the two route points
ScenarioFrame ==
    /\ car_park_positions = ScenarioSpaces
    /\ route_points = ScenarioRoute
    /\ threshold = 900
    /\ Len(space_details) = 3
    /\ [k \in 1 .. 3 |-> space_details[k].id] = << <<"1">>, <<"2">>, <<"3">> >>
    /\ [k \in 1 .. 3 |-> space_details[k].pixel_count] = << 1000, 500, 100 >>
    /\ [k \in 1 .. 3 |-> space_details[k].status] = << "Occupied", "Empty", "Empty" >>
    /\ ~SegmentIntersectsOccupiedSpace(<<0, 0>>, <<50, 0>>, PlannerObstacles)

(* C12: in the frame of the end-to-end scenario classify hands space "2" to the
   planner and the route planned is [(0,0), (50,0), (60,0)]. *)
C12_EndToEnd ==
    ScenarioFrame =>
        /\ route_target # 0
        /\ space_details[route_target].id = <<"2">>
        /\ found_path = << <<0, 0>>, <<50, 0>> >>
        /\ final_route = << <<0, 0>>, <<50, 0>>, <<60, 0>> >>

\* the scenario's frame has been classified
C12_Witness == ScenarioFrame /\ stats.returned /\ stats.empty_spaces = 2

\* the graph-exit node of the last frame's target
ExitNode == GetNearestRouteNode(route_points, TargetCenter)

\* classify returned the statistics of the frame, complete: every loaded space
\* has its entry and is counted once
StatsComplete ==
    /\ stats.returned
    /\ stats.space_details = space_details
    /\ Len(stats.space_details) = Len(car_park_positions)
    /\ stats.total_spaces = Len(car_park_positions)
    /\ stats.empty_spaces + stats.occupied_spaces = stats.total_spaces
    /\ stats.empty_spaces = Cardinality({k \in 1 .. Len(space_details) :
                                           space_details[k].status = "Empty"})

\* a target was handed to the planner and no sequence of unblocked hops leads
\* from the entry node to the graph-exit node
NoSafeRoute == route_target # 0 /\ LeastCost(ExitNode) = -1

(* C13: when the entry node and the graph-exit node are disconnected once the
   blocked hops are removed, the search returns no path, no route is drawn, and
   classify returns the complete statistics of the frame. *)
C13_NoSafeRoute ==
    NoSafeRoute => found_path = << >> /\ final_route = << >> /\ StatsComplete

\* the exit node is a neighbour of the entry node in the proximity graph, every
\* way to it is blocked, and the frame's statistics count an occupied space
C13_Witness ==
    /\ NoSafeRoute
    /\ ExitNode # route_points[1]
    /\ SqDist(route_points[1], ExitNode) < ConnectionRadius * ConnectionRadius
    /\ found_path = << >>
    /\ stats.returned /\ stats.occupied_spaces >= 1 /\ stats.empty_spaces >= 1

(* C14: after every frame in which no space has stable status Empty, and after
   every frame of a classifier without route points, no target was handed to
   the planner, no path was searched, no route was drawn, and classify returned
   the complete statistics of the frame. *)
C14_NoEmptySpace ==
    ( /\ stats.returned
      /\ \/ \A i \in Spaces : StableOf(i) # "Empty"
         \/ route_points = << >> )
    => /\ route_target = 0
       /\ found_path = << >>
       /\ final_route = << >>
       /\ StatsComplete

\* a lot with a route graph whose spaces are all Occupied after the frame
C14_Witness ==
    /\ stats.returned
    /\ Len(route_points) >= 3
    /\ Len(car_park_positions) >= 2
    /\ \A i \in Spaces : StableOf(i) = "Occupied"
    /\ stats.occupied_spaces = stats.total_spaces

\* the edges of the graph _find_path_a_star builds over a list of route points
EdgeSet(nodes) ==
    UNION { LET neighbours == Graph(nodes, nodes[i])
            IN  {<<nodes[i], neighbours[k]>> : k \in 1 .. Len(neighbours)} :
            i \in 1 .. Len(nodes) }

(* C15: after every frame the planner's graph has an edge between two distinct
   route points exactly when their distance is strictly below 250 px, the edge
   relation is symmetric, and the edge set is the one of the frame before. *)
C15_ProximityGraph ==
    [][ \A edges \in {EdgeSet(route_points')} :
          /\ \A a, b \in RoutePointSet' :
                a # b => (<<a, b>> \in edges <=> SqDist(a, b) < 250 * 250)
          /\ \A e \in edges : <<e[2], e[1]>> \in edges
          /\ edges = EdgeSet(route_points) ]_vars

\* a lot with two route points exactly 250 px apart, not joined, and a path
\* found over the edges of the graph
C15_Witness ==
    /\ \E a, b \in RoutePointSet :
          SqDist(a, b) = 250 * 250 /\ <<a, b>> \notin EdgeSet(route_points)
    /\ Len(found_path) >= 3
    /\ \A k \in 1 .. Len(found_path) - 1 :
          <<found_path[k], found_path[k + 1]>> \in EdgeSet(route_points)

(* C16: in monitor_video the stabilization update of the spaces runs exactly
   once for each frame acquired: whenever a frame has been acquired, classify
   has run once since its acquisition, in every state of the loop. *)
C16_OncePerFrame == frame_count >= 1 => classified_since_read = 1

\* the stop signals: the 'q' key has been pressed, the exit button clicked
StopSignal == pending_key = "q" \/ should_quit

\* an iteration that reads a stop signal: one that breaks at the loop's first
\* test, or one that reaches cv2.waitKey
ObservingIteration ==
    \/ QuitLoop
    \/ \E th \in camera.thresholds : \E bars \in Trackbars :
         \E counts \in [1 .. Len(car_park_positions) -> camera.pixel_counts] :
            ProcessFrame(th, bars, counts)

(* C17: once a stop signal has been given, the loop of monitor_video (run
   without a time limit) terminates and releases the capture and the writer,
   whatever the source does: as long as it has not terminated, an iteration
   that reads the signal can run. *)
C17_Cancellation ==
    (StopSignal /\ duration_minutes = 0 /\ frame_count < MaxFrameCount)
    => \/ pc = "done" /\ released
       \/ ENABLED ObservingIteration

(* C18: an iteration of monitor_video whose read fails leaves the loop running
   with the source set back to frame 0, and leaves the stable status, the
   candidate status and the counter of every space, the statistics and the frame
   counter as they were. *)
C18_ReadFailure ==
    [][ (\E th \in camera.thresholds : \E bars \in Trackbars : ReadFailure(th, bars))
          => /\ pc' = "loop"
             /\ cap_pos' = 0
             /\ spot_stable_status_buffer' = spot_stable_status_buffer
             /\ spot_candidate_status_buffer' = spot_candidate_status_buffer
             /\ stats' = stats
             /\ frame_count' = frame_count
             /\ classified_since_read' = classified_since_read ]_vars

\* the source was set back to frame 0 after frames had been read, and a
\* candidate's progress toward promotion is still recorded
C18_Witness ==
    /\ pc = "loop"
    /\ cap_pos = 0
    /\ frame_count >= 1
    /\ \E i \in Spaces : CandidateOf(i).counter = 1 /\ CandidateOf(i).new_status = "Occupied"

----------------------------------------------------------------------------
(* Missing or corrupt positions data *)

\* the classifier was constructed from a file that is absent, unreadable or
\* holds neither a list nor a dict
ConstructedFromNothing ==
    constructed.ran /\ constructed.file.kind \in {"absent", "unreadable", "other"}

(* C19: when the positions file is absent, unreadable, or unpickles to something
   that is neither a list nor a dict, the constructor does not raise and leaves
   zero spaces and zero route points, and every classify call afterwards returns
   empty_spaces = occupied_spaces = total_spaces = 0, occupancy_rate = 0, an
   empty space_details list and no route. *)
C19_MissingOrCorrupt ==
    ConstructedFromNothing =>
        /\ ~constructed.raised
        /\ pc = "classifier"
        /\ car_park_positions = << >>
        /\ route_points = << >>
        /\ stats.returned =>
             /\ stats.empty_spaces = 0
             /\ stats.occupied_spaces = 0
             /\ stats.total_spaces = 0
             /\ stats.occupancy_rate.num = 0
             /\ stats.space_details = << >>
             /\ route_target = 0
             /\ found_path = << >>
             /\ final_route = << >>

C19_Witness ==
    /\ ConstructedFromNothing
    /\ constructed.file.kind = "other"
    /\ stats.returned

----------------------------------------------------------------------------
(* Backward-compatible read *)

\* the polygon an item of an old list stands for
PolygonOf(it) ==
    IF ~IsDict(it) /\ it.type = "xy"
    THEN LET x == it.points[1][1]
             y == it.points[1][2]
         IN  << <<x, y>>, <<x + RectWidth, y>>, <<x + RectWidth, y + RectHeight>>,
                <<x, y + RectHeight>> >>
    ELSE it.points

\* the spaces of the file in its order, numbered "1", "2", ..., and no route point
ReadAsOld(file, positions, points) ==
    /\ Len(positions) = Len(file.car_park_positions)
    /\ \A i \in 1 .. Len(positions) :
         /\ positions[i].has_id
         /\ positions[i].id = Str(i)
         /\ positions[i].points = PolygonOf(file.car_park_positions[i])
    /\ points = << >>

ClassifierReadsOld ==
    (constructed.ran /\ constructed.file \in OldFiles) =>
        /\ ~constructed.raised
        /\ ReadAsOld(constructed.file, car_park_positions, route_points)
        /\ stats.returned => Len(stats.space_details) = Len(car_park_positions)

DenoterReadsOld ==
    (denoter.ran /\ denoter.file \in OldFiles) =>
        ReadAsOld(denoter.file, denoter.car_park_positions, denoter.route_points)

GeneratorReadsOld ==
    (generator.ran /\ generator.file \in OldFiles) =>
        ReadAsOld(generator.file, generator.car_park_positions, generator.route_points)

(* C20: every reader of the positions file (the classifier's constructor with
   _read_positions, CoordinateDenoter.read_positions, the load of
   car_park_coordinate_generator.main), given a bare list of spaces without
   identifiers and route points, yields the spaces in the order of the list
   with the identifiers "1", "2", ... and an empty route-point list, and the
   classifier is constructed and classifies them. *)
C20_BackwardCompatibleRead ==
    ClassifierReadsOld /\ DenoterReadsOld /\ GeneratorReadsOld

----------------------------------------------------------------------------
(* pickle: the objects the tools save, the opcodes of a dump, the load *)

PyInt(n) == [tag |-> "int", val |-> n]

PyStr(chars) == [tag |-> "str", val |-> chars]

PyBool(b) == [tag |-> "bool", val |-> b]

PyTuple(items) == [tag |-> "tuple", val |-> items]

PyList(items) == [tag |-> "list", val |-> items]

\* a dict: its (key, value) pairs in insertion order
PyDict(pairs) == [tag |-> "dict", val |-> pairs]

PyMark == [tag |-> "mark", val |-> << >>]

Op(name, arg) == [op |-> name, arg |-> arg]

\* the keys of the saved dict and of a space
KeyPositions == <<"c", "a", "r", "_", "p", "a", "r", "k", "_", "p", "o", "s", "i", "t", "i", "o", "n", "s">>

KeyRoute == <<"r", "o", "u", "t", "e", "_", "p", "o", "i", "n", "t", "s">>

KeyId == <<"i", "d">>

KeyPoints == <<"p", "o", "i", "n", "t", "s">>

KeyIrregular == <<"i", "r", "r", "e", "g", "u", "l", "a", "r">>

\* save_int for 0 <= n < 65536: one byte, or two bytes low byte first
DumpInt(n) ==
    IF n < 256 THEN << Op("BININT1", << n >>) >>
    ELSE << Op("BININT2", << n % 256, n \div 256 >>) >>

\* the opcodes that build the object v on the unpickler's stack (memoization and
\* framing, which change no loaded object, are left out)
RECURSIVE Dump(_), DumpItems(_, _), DumpPairs(_, _)
Dump(v) ==
    CASE v.tag = "int" -> DumpInt(v.val)
      [] v.tag = "str" -> << Op("SHORT_BINUNICODE", v.val) >>
      [] v.tag = "bool" -> << Op(IF v.val THEN "NEWTRUE" ELSE "NEWFALSE", << >>) >>
      [] v.tag = "tuple" -> DumpItems(v.val, 1) \o << Op("TUPLE2", << >>) >>
      [] v.tag = "list" ->
           IF v.val = << >> THEN << Op("EMPTY_LIST", << >>) >>
           ELSE IF Len(v.val) = 1
           THEN << Op("EMPTY_LIST", << >>) >> \o Dump(v.val[1]) \o << Op("APPEND", << >>) >>
           ELSE << Op("EMPTY_LIST", << >>), Op("MARK", << >>) >>
                  \o DumpItems(v.val, 1) \o << Op("APPENDS", << >>) >>
      [] v.tag = "dict" ->
           IF v.val = << >> THEN << Op("EMPTY_DICT", << >>) >>
           ELSE IF Len(v.val) = 1
           THEN << Op("EMPTY_DICT", << >>) >> \o DumpPairs(v.val, 1)
                  \o << Op("SETITEM", << >>) >>
           ELSE << Op("EMPTY_DICT", << >>), Op("MARK", << >>) >>
                  \o DumpPairs(v.val, 1) \o << Op("SETITEMS", << >>) >>

DumpItems(items, k) ==
    IF k > Len(items) THEN << >> ELSE Dump(items[k]) \o DumpItems(items, k + 1)

DumpPairs(pairs, k) ==
    IF k > Len(pairs) THEN << >>
    ELSE Dump(pairs[k][1]) \o Dump(pairs[k][2]) \o DumpPairs(pairs, k + 1)

\* pickle.dump(obj, f)
PickleDump(obj) == << Op("PROTO", << 4 >>) >> \o Dump(obj) \o << Op("STOP", << >>) >>

\* the position of the topmost mark of the stack
TopMark(stack) ==
    CHOOSE k \in 1 .. Len(stack) :
        /\ stack[k].tag = "mark"
        /\ \A j \in k + 1 .. Len(stack) : stack[j].tag # "mark"

\* d[key] = value
SetItem(pairs, key, value) ==
    IF \E k \in 1 .. Len(pairs) : pairs[k][1].val = key.val
    THEN [k \in 1 .. Len(pairs) |->
            IF pairs[k][1].val = key.val THEN << key, value >> ELSE pairs[k]]
    ELSE Append(pairs, << key, value >>)

RECURSIVE SetItems(_, _)
SetItems(pairs, flat) ==
    IF flat = << >> THEN pairs
    ELSE SetItems(SetItem(pairs, flat[1], flat[2]), SubSeq(flat, 3, Len(flat)))

\* one opcode of the unpickler on its stack
Execute(o, stack) ==
    LET n == Len(stack)
        Drop(j) == SubSeq(stack, 1, n - j)
    IN  CASE o.op \in {"PROTO", "STOP"} -> stack
          [] o.op = "BININT1" -> Append(stack, PyInt(o.arg[1]))
          [] o.op = "BININT2" -> Append(stack, PyInt(o.arg[1] + 256 * o.arg[2]))
          [] o.op = "SHORT_BINUNICODE" -> Append(stack, PyStr(o.arg))
          [] o.op = "NEWTRUE" -> Append(stack, PyBool(TRUE))
          [] o.op = "NEWFALSE" -> Append(stack, PyBool(FALSE))
          [] o.op = "TUPLE2" -> Append(Drop(2), PyTuple(<< stack[n - 1], stack[n] >>))
          [] o.op = "EMPTY_LIST" -> Append(stack, PyList(<< >>))
          [] o.op = "EMPTY_DICT" -> Append(stack, PyDict(<< >>))
          [] o.op = "MARK" -> Append(stack, PyMark)
          [] o.op = "APPEND" -> Append(Drop(2), PyList(Append(stack[n - 1].val, stack[n])))
          [] o.op = "APPENDS" ->
               LET m == TopMark(stack)
               IN  Append(SubSeq(stack, 1, m - 2),
                          PyList(stack[m - 1].val \o SubSeq(stack, m + 1, n)))
          [] o.op = "SETITEM" ->
               Append(Drop(3), PyDict(SetItem(stack[n - 2].val, stack[n - 1], stack[n])))
          [] o.op = "SETITEMS" ->
               LET m == TopMark(stack)
               IN  Append(SubSeq(stack, 1, m - 2),
                          PyDict(SetItems(stack[m - 1].val, SubSeq(stack, m + 1, n))))

\* the unpickler: the opcodes lo .. hi one after the other on the stack (the
\* range is halved, and the first half is run before the second is entered, to
\* keep the evaluation shallow)
RECURSIVE Unpickle(_, _, _, _)
Unpickle(ops, lo, hi, stack) ==
    IF lo = hi THEN Execute(ops[lo], stack)
    ELSE LET mid == (lo + hi) \div 2
             first == Unpickle(ops, lo, mid, stack)
         IN  IF Len(first) >= 0 THEN Unpickle(ops, mid + 1, hi, first) ELSE << >>

Top(stack) == stack[Len(stack)]

\* pickle.load(f): the object on top of the stack at STOP
PickleLoad(ops) == Top(Unpickle(ops, 1, Len(ops), << >>))

\* d.get(key, default)
DictGet(d, key, default) ==
    IF \E k \in 1 .. Len(d.val) : d.val[k][1].val = key
    THEN d.val[CHOOSE k \in 1 .. Len(d.val) : d.val[k][1].val = key][2]
    ELSE default

HasKey(d, key) == \E k \in 1 .. Len(d.val) : d.val[k][1].val = key

\* a point as a tuple of two ints, a space as the dict the editors build
PyPoint(pt) == PyTuple(<< PyInt(pt[1]), PyInt(pt[2]) >>)

RECURSIVE PyPoints(_, _)
PyPoints(points, k) ==
    IF k > Len(points) THEN << >> ELSE << PyPoint(points[k]) >> \o PyPoints(points, k + 1)

PySpace(pos) ==
    PyDict((IF pos.has_id THEN << << PyStr(KeyId), PyStr(pos.id) >> >> ELSE << >>)
             \o << << PyStr(KeyPoints), PyList(PyPoints(pos.points, 1)) >>,
                   << PyStr(KeyIrregular), PyBool(pos.irregular) >> >>)

RECURSIVE PySpaces(_, _)
PySpaces(positions, k) ==
    IF k > Len(positions) THEN << >>
    ELSE << PySpace(positions[k]) >> \o PySpaces(positions, k + 1)

\* mutant: the route points are left out of the saved dict
DataToSaveNoRoute(positions, points) ==
    PyDict(<< << PyStr(KeyPositions), PyList(PySpaces(positions, 1)) >>,
              << PyStr(KeyRoute), PyList(<< >>) >> >>)

\* data_to_save of save_positions, data of save_data
DataToSave(positions, points) ==
    PyDict(<< << PyStr(KeyPositions), PyList(PySpaces(positions, 1)) >>,
              << PyStr(KeyRoute), PyList(PyPoints(points, 1)) >> >>)

\* the loaded objects as the readers take them
PointOf(t) == << t.val[1].val, t.val[2].val >>

RECURSIVE PointsOf(_, _)
PointsOf(items, k) ==
    IF k > Len(items) THEN << >> ELSE << PointOf(items[k]) >> \o PointsOf(items, k + 1)

SpaceOf(d) ==
    [has_id |-> HasKey(d, KeyId),
     id |-> DictGet(d, KeyId, PyStr(<< >>)).val,
     points |-> PointsOf(DictGet(d, KeyPoints, PyList(<< >>)).val, 1),
     irregular |-> DictGet(d, KeyIrregular, PyBool(FALSE)).val]

RECURSIVE SpacesOf(_, _)
SpacesOf(items, k) ==
    IF k > Len(items) THEN << >> ELSE << SpaceOf(items[k]) >> \o SpacesOf(items, k + 1)

\* what a reader finds in the file after the dump: a dict, its two lists by
\* data.get(key, [])
FileOfData(data) ==
    DictFile(SpacesOf(DictGet(data, KeyPositions, PyList(<< >>)).val, 1),
             PointsOf(DictGet(data, KeyRoute, PyList(<< >>)).val, 1))

FileOf(ops) == FileOfData(PickleLoad(ops))

\* save_positions, save_data: the file after pickle.dump
SavedFile(positions, points) == FileOf(PickleDump(DataToSave(positions, points)))

----------------------------------------------------------------------------
(* CoordinateDenoter: the editor's state and its event handlers *)

\* the events of the editing sessions explored, the spaces they may hold, the
\* route points, the characters typed into the identifier field
MaxEvents == 8

MaxSpaces == 2

MaxRoutePoints == 1

MaxInput == 2

\* the length _handle_text_input lets the buffer reach
InputLimit == 20

\* the points of an irregular space
IrregularCorners == 4

\* right click in route mode removes the nearest route point closer than this
RemoveRadius == 50

\* where the user clicks: the second point lies inside the rectangle put at the first
ClickPoints == { <<30, 60>>, <<40, 70>> }

\* cv2.pointPolygonTest(pts, pt, False) >= 0: on an edge, or inside
PointInPolygon(pts, pt) ==
    \/ \E i \in 1 .. Len(pts) : EdgeWithin(EdgeFrom(pts, i), pts[i], pt, 0)
    \/ Cardinality({i \in 1 .. Len(pts) : EdgeCrossed(EdgeFrom(pts, i), pts[i], pt)}) % 2 = 1

\* the first space under the point, 0 when there is none
SpaceAt(positions, pt) ==
    IF \E i \in 1 .. Len(positions) : PointInPolygon(positions[i].points, pt)
    THEN CHOOSE i \in 1 .. Len(positions) :
             /\ PointInPolygon(positions[i].points, pt)
             /\ \A j \in 1 .. i - 1 : ~PointInPolygon(positions[j].points, pt)
    ELSE 0

\* seq.pop(i) for the i-th element, counted from 1
Pop(seq, i) == SubSeq(seq, 1, i - 1) \o SubSeq(seq, i + 1, Len(seq))

\* the numeric identifiers of _get_next_id: the digit strings
ExistingIntIds(positions) ==
    {DigitsVal(positions[i].id) :
       i \in {j \in 1 .. Len(positions) : positions[j].has_id /\ IsDigit(positions[j].id)}}

\* the loop over sorted_ids from expected_id on
RECURSIVE NextIdFrom(_, _)
NextIdFrom(ids, expected_id) ==
    IF ids = {} THEN expected_id
    ELSE LET current_id == CHOOSE m \in ids : \A o \in ids : m <= o
         IN  IF current_id > expected_id THEN expected_id
             ELSE NextIdFrom(ids \ {current_id}, current_id + 1)

\* CoordinateDenoter._get_next_id
GetNextIdDenoter(positions) ==
    IF positions = << >> THEN 1
    ELSE IF ExistingIntIds(positions) = {} THEN 1
    ELSE NextIdFrom(ExistingIntIds(positions), 1)

\* s.strip()
RECURSIVE Strip(_)
Strip(chars) ==
    IF chars # << >> /\ Head(chars) = " " THEN Strip(Tail(chars))
    ELSE IF chars # << >> /\ chars[Len(chars)] = " "
    THEN Strip(SubSeq(chars, 1, Len(chars) - 1))
    ELSE chars

\* str(pos.get('id')): 'None' for a space without the key
StrId(pos) == IF pos.has_id THEN pos.id ELSE <<"N", "o", "n", "e">>

\* the denoter after __init__ and read_positions; edit_clicked remembers the
\* polygon of the space whose identifier is being edited
DenoterLoaded(positions, points) ==
    [ran |-> TRUE, car_park_positions |-> positions,
     route_points |-> points, mode |-> "p", irregular_points |-> << >>,
     is_editing_id |-> FALSE, edit_target_index |-> -1, input_buffer |-> << >>,
     edit_clicked |-> << >>]

\* an event's outcome: the denoter after it, and whether save_positions ran
Outcome(self, save) == [self |-> self, save |-> save]

\* set_mode(mode)
SetMode(self, mode) ==
    IF mode \in {"p", "i", "t", "e", "c"}
    THEN [self EXCEPT !.mode = mode, !.irregular_points = << >>]
    ELSE self

\* mouseClick with EVENT_LBUTTONDOWN at (x, y)
LeftClick(self, pt) ==
    LET x == pt[1]
        y == pt[2]
    IN  CASE self.mode = "p" ->
               Outcome([self EXCEPT !.car_park_positions =
                          Append(@, Space(Str(GetNextIdDenoter(self.car_park_positions)),
                                          << <<x, y>>, <<x + RectWidth, y>>,
                                             <<x + RectWidth, y + RectHeight>>,
                                             <<x, y + RectHeight>> >>))],
                       TRUE)
          [] self.mode = "i" ->
               LET pts == Append(self.irregular_points, pt)
               IN  IF Len(pts) = IrregularCorners
                   THEN Outcome([self EXCEPT
                                   !.car_park_positions =
                                      Append(@, [has_id |-> TRUE,
                                                 id |-> Str(GetNextIdDenoter(self.car_park_positions)),
                                                 points |-> pts, irregular |-> TRUE]),
                                   !.irregular_points = << >>],
                                TRUE)
                   ELSE Outcome([self EXCEPT !.irregular_points = pts], FALSE)
          [] self.mode = "t" ->
               Outcome([self EXCEPT !.route_points = Append(@, pt)], TRUE)
          [] self.mode = "e" ->
               LET target == SpaceAt(self.car_park_positions, pt)
               IN  IF self.is_editing_id \/ target = 0 THEN Outcome(self, FALSE)
                   ELSE Outcome([self EXCEPT
                                   !.edit_target_index = target - 1,
                                   !.input_buffer = self.car_park_positions[target].id,
                                   !.is_editing_id = TRUE,
                                   !.edit_clicked = self.car_park_positions[target].points],
                                FALSE)
          [] self.mode = "c" ->
               LET pts == Append(self.irregular_points, pt)
               IN  Outcome([self EXCEPT !.irregular_points =
                                          IF Len(pts) = 2 THEN << >> ELSE pts],
                           FALSE)

\* np.argmin(distances): the first route point at the least distance
NearestRoutePoint(points, pt) ==
    CHOOSE i \in 1 .. Len(points) :
        /\ \A j \in 1 .. Len(points) : SqDist(points[i], pt) <= SqDist(points[j], pt)
        /\ \A j \in 1 .. i - 1 : SqDist(points[j], pt) > SqDist(points[i], pt)

\* mouseClick with EVENT_RBUTTONDOWN at (x, y): the first space under the point
\* is removed; pending irregular points are dropped; in route mode the nearest
\* route point goes when it is closer than 50
RightClick(self, pt) ==
    LET hit == SpaceAt(self.car_park_positions, pt)
        removed == IF hit # 0
                   THEN [self EXCEPT !.car_park_positions = Pop(@, hit)]
                   ELSE self
        cancelled == IF removed.mode = "i" /\ removed.irregular_points # << >>
                     THEN [removed EXCEPT !.irregular_points = << >>]
                     ELSE removed
        near == IF cancelled.mode = "t" /\ cancelled.route_points # << >>
                THEN NearestRoutePoint(cancelled.route_points, pt)
                ELSE 0
        unrouted == near # 0
                      /\ SqDist(cancelled.route_points[near], pt) < RemoveRadius * RemoveRadius
    IN  Outcome(IF unrouted
                THEN [cancelled EXCEPT !.route_points = Pop(@, near)]
                ELSE cancelled,
                hit # 0 \/ unrouted)

\* seq[i] of Python for -len <= i < len, counted from 0, negative from the end
PyIndex(seq, i) == IF i >= 0 THEN i + 1 ELSE Len(seq) + i + 1

IndexInRange(seq, i) == 0 - Len(seq) <= i /\ i < Len(seq)

\* _handle_text_input(13): the identifier typed goes to the edited space; a space
\* that already has it gets the edited space's old one; the edit ends. An index
\* outside the list raises before anything is changed.
HandleEnter(self) ==
    LET new_id_str == Strip(self.input_buffer)
        positions == self.car_park_positions
        current_spot_index == self.edit_target_index
        others == {i \in 1 .. Len(positions) :
                     i - 1 # current_spot_index /\ StrId(positions[i]) = new_id_str}
        existing_spot_index == IF others = {} THEN -1
                               ELSE (CHOOSE i \in others : \A j \in others : i <= j) - 1
        cur == PyIndex(positions, current_spot_index)
        ended == SetMode([self EXCEPT !.is_editing_id = FALSE, !.input_buffer = << >>,
                                      !.edit_target_index = -1,
                                      !.edit_clicked = << >>], "p")
    IN  IF self.input_buffer = << >> THEN Outcome(ended, FALSE)
        ELSE IF ~IndexInRange(positions, current_spot_index) THEN Outcome(self, FALSE)
        ELSE IF existing_spot_index # -1 /\ ~positions[cur].has_id
        THEN Outcome(self, FALSE)
        ELSE IF existing_spot_index # -1
        THEN Outcome([ended EXCEPT
                        !.car_park_positions =
                           [i \in 1 .. Len(positions) |->
                              IF i = cur
                              THEN [positions[i] EXCEPT !.has_id = TRUE, !.id = new_id_str]
                              ELSE IF i = existing_spot_index + 1
                              THEN [positions[i] EXCEPT !.has_id = TRUE,
                                                        !.id = positions[cur].id]
                              ELSE positions[i]]],
                     TRUE)
        ELSE Outcome([ended EXCEPT
                        !.car_park_positions[cur] =
                           [@ EXCEPT !.has_id = TRUE, !.id = new_id_str]],
                     TRUE)

\* _handle_text_input(key_code) for Enter, Backspace and a character
HandleTextInput(self, key) ==
    IF key = "enter" THEN HandleEnter(self)
    ELSE IF key = "backspace"
    THEN Outcome([self EXCEPT !.input_buffer = SubSeq(@, 1, Len(@) - 1)], FALSE)
    ELSE Outcome(IF Len(self.input_buffer) < InputLimit
                 THEN [self EXCEPT !.input_buffer = Append(@, key)]
                 ELSE self,
                 FALSE)

----------------------------------------------------------------------------
(* car_park_coordinate_generator: the editor's globals and its event handlers *)

\* rect_w, rect_h of load_config_dims for a lot without configured dimensions
GeneratorRectWidth == 50

GeneratorRectHeight == 100

\* create_rotated_rect(center, rect_w, rect_h, 0): the corners around the centre
\* (current_angle is 0 until the mouse wheel turns)
CreateRotatedRect(center) ==
    LET cx == center[1]
        cy == center[2]
        hw == GeneratorRectWidth \div 2
        hh == GeneratorRectHeight \div 2
    IN  << <<cx - hw, cy - hh>>, <<cx + hw, cy - hh>>, <<cx + hw, cy + hh>>,
           <<cx - hw, cy + hh>> >>

\* mutant: the number after the count of the spaces
GetNextIdByCount(positions) == Str(Len(positions) + 1)

\* get_next_id: the least cand >= 1 that no digit identifier has as its value
RECURSIVE CandFrom(_, _)
CandFrom(existing, cand) == IF cand \in existing THEN CandFrom(existing, cand + 1) ELSE cand

GetNextId(positions) == Str(CandFrom(ExistingIntIds(positions), 1))

\* chr(k).upper() for the keys of the model
Upper(c) == IF c = "a" THEN "A" ELSE c

\* the globals after main's load, mode being args.mode's default
GeneratorLoaded(positions, points) ==
    [ran |-> TRUE, car_park_positions |-> positions, route_points |-> points,
     mode |-> "p", temp_points |-> << >>, is_editing_id |-> FALSE,
     edit_target_index |-> -1, input_buffer |-> << >>]

\* the first frame is drawn with str(p['id']) and the points of every space: a
\* space without 'id', and the number taken for the points of an (x, y) item,
\* end main with an exception
DrawRaises(file) ==
    /\ file.kind \in {"list", "dict"}
    /\ \E i \in 1 .. Len(file.car_park_positions) :
         LET it == file.car_park_positions[i]
         IN  IF IsDict(it) THEN ~it.has_id ELSE it.type = "xy"

\* mouse_events with EVENT_LBUTTONDOWN on the image (outside the buttons)
GeneratorLeftClick(self, pt) ==
    IF self.is_editing_id THEN self
    ELSE CASE self.mode = "p" ->
                [self EXCEPT !.car_park_positions =
                   Append(@, Space(GetNextId(self.car_park_positions),
                                   CreateRotatedRect(pt)))]
           [] self.mode = "i" ->
                LET pts == Append(self.temp_points, pt)
                IN  IF Len(pts) = IrregularCorners
                    THEN [self EXCEPT
                            !.car_park_positions =
                               Append(@, [has_id |-> TRUE,
                                          id |-> GetNextId(self.car_park_positions),
                                          points |-> pts, irregular |-> TRUE]),
                            !.temp_points = << >>]
                    ELSE [self EXCEPT !.temp_points = pts]
           [] self.mode = "t" -> [self EXCEPT !.route_points = Append(@, pt)]
           [] self.mode = "e" ->
                LET target == SpaceAt(self.car_park_positions, pt)
                IN  IF target = 0 THEN self
                    ELSE [self EXCEPT
                            !.edit_target_index = target - 1,
                            !.input_buffer = self.car_park_positions[target].id,
                            !.is_editing_id = TRUE]

\* mouse_events with EVENT_RBUTTONDOWN
GeneratorRightClick(self, pt) ==
    LET hit == SpaceAt(self.car_park_positions, pt)
    IN  IF self.mode = "t" /\ self.route_points # << >>
        THEN [self EXCEPT !.route_points = SubSeq(@, 1, Len(@) - 1)]
        ELSE IF self.mode \in {"p", "i"}
        THEN IF hit # 0 THEN [self EXCEPT !.car_park_positions = Pop(@, hit)]
             ELSE IF self.mode = "i" /\ self.temp_points # << >>
             THEN [self EXCEPT !.temp_points = SubSeq(@, 1, Len(@) - 1)]
             ELSE self
        ELSE IF self.temp_points # << >> THEN [self EXCEPT !.temp_points = << >>]
        ELSE self

\* the key k of the main loop while is_editing_id: Enter gives the typed
\* identifier to the edited space and the edited space's identifier to every
\* space that has the typed one
GeneratorEditKey(self, key) ==
    LET positions == self.car_park_positions
        cur == self.edit_target_index + 1
    IN  IF key = "enter"
        THEN IF self.input_buffer = << >> THEN self
             ELSE [self EXCEPT
                     !.car_park_positions =
                        [i \in 1 .. Len(positions) |->
                           IF i = cur THEN [positions[i] EXCEPT !.id = self.input_buffer]
                           ELSE IF positions[i].id = self.input_buffer
                           THEN [positions[i] EXCEPT !.id = positions[cur].id]
                           ELSE positions[i]],
                     !.is_editing_id = FALSE]
        ELSE IF key = "backspace"
        THEN [self EXCEPT !.input_buffer = SubSeq(@, 1, Len(@) - 1)]
        ELSE [self EXCEPT !.input_buffer = Append(@, Upper(key))]

\* the keys p, i, t, e, r of the main loop while not is_editing_id
GeneratorKey(self, key) ==
    CASE key = "i" -> [self EXCEPT !.mode = "i", !.temp_points = << >>]
      [] key \in {"p", "t", "e"} -> [self EXCEPT !.mode = key]
      [] key = "r" -> [self EXCEPT !.car_park_positions = << >>, !.route_points = << >>]

----------------------------------------------------------------------------
(* Editing sessions: a tool is started on the positions file, handles the
   user's events, saves, and is closed *)

\* the rectangle the denoter puts at a click
DenoterRect(pt) ==
    << pt, <<pt[1] + RectWidth, pt[2]>>, <<pt[1] + RectWidth, pt[2] + RectHeight>>,
       <<pt[1], pt[2] + RectHeight>> >>

\* the files a session starts from: none, the new schema (a gap in the numbers, a
\* name, an irregular space, a route point), the old lists, and an old list with
\* a (points, mode) pair before a dict that has an identifier
EditFiles ==
    { AbsentFile,
      DictFile(<< Space(<<"2">>, DenoterRect(<<30, 60>>)),
                  [has_id |-> TRUE, id |-> <<"a">>, irregular |-> TRUE,
                   points |-> << <<40, 70>>, <<300, 70>>, <<300, 90>>, <<40, 90>> >>] >>,
               << <<35, 65>> >>),
      ListFile(<< Corner(30, 60), Corner(300, 60) >>),
      ListFile(<< SpaceNoId(DenoterRect(<<30, 60>>)) >>),
      ListFile(<< Pair(DenoterRect(<<40, 70>>), "i"), Pair(DenoterRect(<<300, 60>>), "r") >>),
      ListFile(<< Pair(DenoterRect(<<40, 70>>), "r"),
                  Space(<<"1">>, DenoterRect(<<300, 60>>)) >>) }

\* the characters typed into the identifier field
InputChars == {"1", "2", " "}

\* the character keys pressed in the generator's identifier field
GeneratorChars == {"1", "2", "a"}

\* no classifier is constructed, no monitor runs
NoClassifier ==
    /\ constructed = NotRun
    /\ events = 0
    /\ car_park_positions = << >>
    /\ route_points = << >>
    /\ stabilization_frames = StabilizationFrames
    /\ spot_stable_status_buffer = << >>
    /\ spot_candidate_status_buffer = << >>
    /\ threshold = 0
    /\ sorted_positions = << >>
    /\ space_details = << >>
    /\ route_target = 0
    /\ found_path = << >>
    /\ final_route = << >>
    /\ camera = LoadCamera
    /\ raw_history = << >>
    /\ stats = NoStats
    /\ classify_calls = 0
    /\ pc = "start"
    /\ paused = FALSE
    /\ frame_count = 0
    /\ should_quit = FALSE
    /\ tuning_active = FALSE
    /\ current_threshold = 0
    /\ frame = << >>
    /\ pending_key = "none"
    /\ source = "live"
    /\ cap_pos = 0
    /\ released = FALSE
    /\ duration_minutes = 0
    /\ time_up = FALSE
    /\ classified_since_read = 0
    /\ processing_params = ConfigParams

EditInit ==
    /\ positions_file \in EditFiles
    /\ denoter = NotRun
    /\ generator = NotRun
    /\ NoClassifier

\* what a session of the denoter leaves alone
denoter_frame == << classifier_vars, monitor_vars, constructed, generator >>

\* within the bounds of the model
DenoterBounded(self) ==
    /\ Len(self.car_park_positions) <= MaxSpaces
    /\ Len(self.route_points) <= MaxRoutePoints
    /\ Len(self.input_buffer) <= MaxInput

\* the event's outcome becomes the state; save_positions writes the file
DenoterEvent(outcome) ==
    /\ events < MaxEvents
    /\ events' = events + 1
    /\ DenoterBounded(outcome.self)
    /\ denoter' = outcome.self
    /\ \E file \in {IF outcome.save
                     THEN SavedFile(outcome.self.car_park_positions,
                                    outcome.self.route_points)
                     ELSE positions_file} :
         positions_file' = file
    /\ UNCHANGED denoter_frame

\* demonstration(): the denoter is created and reads the file
DenoterStart ==
    /\ pc = "start" /\ ~denoter.ran /\ ~generator.ran
    /\ \E r \in {DenoterReadPositions(positions_file)} :
         DenoterEvent(Outcome(DenoterLoaded(r.car_park_positions, r.route_points),
                              r.saved))

DenoterMouseClick ==
    /\ denoter.ran
    /\ \E pt \in ClickPoints :
         \/ \E o \in {LeftClick(denoter, pt)} : DenoterEvent(o)
         \/ \E o \in {RightClick(denoter, pt)} : DenoterEvent(o)

DenoterSetMode ==
    /\ denoter.ran
    /\ \E mode \in {"p", "i", "t", "e", "c"} :
         DenoterEvent(Outcome(SetMode(denoter, mode), FALSE))

DenoterTextInput ==
    /\ denoter.ran
    /\ \E key \in {"enter", "backspace"} \cup InputChars :
         \E o \in {HandleTextInput(denoter, key)} : DenoterEvent(o)

\* the 'r' key of demonstration(): everything is dropped and saved
DenoterReset ==
    /\ denoter.ran
    /\ DenoterEvent(Outcome([denoter EXCEPT !.car_park_positions = << >>,
                                            !.irregular_points = << >>,
                                            !.route_points = << >>],
                            TRUE))

\* the 's' key
DenoterSave ==
    /\ denoter.ran
    /\ DenoterEvent(Outcome(denoter, TRUE))

\* 'q' or ESC
DenoterQuit ==
    /\ denoter.ran
    /\ events < MaxEvents
    /\ events' = events + 1
    /\ denoter' = NotRun
    /\ UNCHANGED << positions_file, denoter_frame >>

DenoterNext ==
    \/ DenoterStart
    \/ DenoterMouseClick
    \/ DenoterSetMode
    \/ DenoterTextInput
    \/ DenoterReset
    \/ DenoterSave
    \/ DenoterQuit

generator_frame == << classifier_vars, monitor_vars, constructed, denoter >>

GeneratorBounded(self) ==
    /\ Len(self.car_park_positions) <= MaxSpaces
    /\ Len(self.route_points) <= MaxRoutePoints
    /\ Len(self.input_buffer) <= MaxInput

\* the handler's outcome becomes the globals; the file is left alone
GeneratorEvent(self) ==
    /\ events < MaxEvents
    /\ events' = events + 1
    /\ GeneratorBounded(self)
    /\ generator' = self
    /\ UNCHANGED << positions_file, generator_frame >>

\* main(): the load, then the first frame; an exception while drawing ends the
\* program before any event
GeneratorStart ==
    /\ pc = "start" /\ ~denoter.ran /\ ~generator.ran
    /\ \E r \in {GeneratorLoad(positions_file)} :
         IF DrawRaises(positions_file)
         THEN /\ events < MaxEvents
              /\ events' = events + 1
              /\ UNCHANGED << positions_file, generator, generator_frame >>
         ELSE GeneratorEvent(GeneratorLoaded(r.car_park_positions, r.route_points))

GeneratorMouseEvents ==
    /\ generator.ran
    /\ \E pt \in ClickPoints :
         \/ GeneratorEvent(GeneratorLeftClick(generator, pt))
         \/ GeneratorEvent(GeneratorRightClick(generator, pt))

\* a key while an identifier is edited
GeneratorEditing ==
    /\ generator.ran /\ generator.is_editing_id
    /\ \E key \in {"enter", "backspace"} \cup GeneratorChars :
         GeneratorEvent(GeneratorEditKey(generator, key))

\* a mode key or the reset key
GeneratorKeyPress ==
    /\ generator.ran /\ ~generator.is_editing_id
    /\ \E key \in {"p", "i", "t", "e", "r"} : GeneratorEvent(GeneratorKey(generator, key))

\* the 's' key: save_data
GeneratorSave ==
    /\ generator.ran /\ ~generator.is_editing_id
    /\ events < MaxEvents
    /\ events' = events + 1
    /\ \E file \in {SavedFile(generator.car_park_positions, generator.route_points)} :
         positions_file' = file
    /\ UNCHANGED << generator, generator_frame >>

\* 'q' or Enter: should_exit, then save_data at the top of the loop and the end
GeneratorExit ==
    /\ generator.ran /\ ~generator.is_editing_id
    /\ events < MaxEvents
    /\ events' = events + 1
    /\ \E file \in {SavedFile(generator.car_park_positions, generator.route_points)} :
         positions_file' = file
    /\ generator' = NotRun
    /\ UNCHANGED generator_frame

EditNext ==
    \/ DenoterNext
    \/ GeneratorStart
    \/ GeneratorMouseEvents
    \/ GeneratorEditing
    \/ GeneratorKeyPress
    \/ GeneratorSave
    \/ GeneratorExit

EditSpec == EditInit /\ [][EditNext]_vars

----------------------------------------------------------------------------
(* Claims about the editing sessions *)

\* every space of the lot has the three keys of the new schema
NewSchema(positions) == \A i \in 1 .. Len(positions) : positions[i].has_id

\* both readers find in the file the spaces and the route points given, in order
ReadsBack(positions, points, file) ==
    /\ ReadPositions(file).car_park_positions = positions
    /\ ReadPositions(file).route_points = points
    /\ DenoterReadPositions(file).car_park_positions = positions
    /\ DenoterReadPositions(file).route_points = points

(* C21: after every save of a lot in the new schema (save_positions of the
   denoter, save_data of the generator) ParkClassifier._read_positions and
   CoordinateDenoter.read_positions read from the file the identifiers, points
   and irregular flags of the saved spaces in their order and the saved route
   points in their order. *)
C21_RoundTrip ==
    [][ \/ positions_file' = positions_file
        \/ /\ denoter'.ran
           /\ NewSchema(denoter'.car_park_positions)
                => ReadsBack(denoter'.car_park_positions, denoter'.route_points,
                             positions_file')
        \/ /\ generator.ran
           /\ NewSchema(generator.car_park_positions)
                => ReadsBack(generator.car_park_positions, generator.route_points,
                             positions_file') ]_vars

\* a lot with an irregular space and a route point was saved by the denoter or
\* by the generator and reads back as it is in memory
C21_Witness ==
    /\ positions_file \notin EditFiles
    /\ positions_file.kind = "dict"
    /\ positions_file.route_points # << >>
    /\ \E i \in 1 .. Len(positions_file.car_park_positions) :
         positions_file.car_park_positions[i].irregular
    /\ \/ /\ denoter.ran
          /\ ReadsBack(denoter.car_park_positions, denoter.route_points, positions_file)
       \/ /\ generator.ran
          /\ ReadsBack(generator.car_park_positions, generator.route_points,
                       positions_file)

----------------------------------------------------------------------------
(* Claims about the parameters of the preprocessing *)

(* C22: on every call of implement_process made by the loop of monitor_video
   the block size of the adaptive threshold is odd and at least 3 and the two
   sides of the Gaussian kernel are odd and positive, whether the parameters
   come from the configuration, from the command-line overrides or from the
   trackbars: after an iteration that called it, the parameters in force are
   valid. *)
C22_ParameterValidity ==
    (pc = "raised" \/ classified_since_read > 0) => ValidParams(processing_params)

----------------------------------------------------------------------------
(* Claims about the classifier's fields between frames *)

(* C23: no call of classify, with its sorting and its route planning, changes
   the content or the order of self.car_park_positions or of
   self.route_points. *)
C23_SpacesImmutable ==
    [][car_park_positions' = car_park_positions /\ route_points' = route_points]_vars

\* classify has processed the spaces in another order than the stored one, and
\* has planned a route
C23_Witness ==
    /\ stats.returned
    /\ \E k \in 1 .. Len(sorted_positions) : sorted_positions[k] # k
    /\ final_route # << >>

----------------------------------------------------------------------------
(* Claims about the identifiers the editing tools give *)

\* no two spaces of the lot have the same identifier string
UniqueIds(positions) ==
    \A i, j \in 1 .. Len(positions) :
        (i # j /\ positions[i].has_id /\ positions[j].has_id)
           => positions[i].id # positions[j].id

(* C24: from a lot that is empty or whose identifiers are unique, after any
   sequence of operations of the denoter or of the generator (a rectangle added,
   an irregular polygon completed, a space deleted, an identifier edited with
   the swap on collision, a reset, the conversion of an old file) no two spaces
   of the lot have the same identifier string. *)
C24_UniqueIdentifiers ==
    /\ denoter.ran => UniqueIds(denoter.car_park_positions)
    /\ generator.ran => UniqueIds(generator.car_park_positions)

----------------------------------------------------------------------------
(* Claims about the stabilization records *)

\* the lot the generator leaves after loading the old list with a pair before
\* the dict that has the identifier "1": two spaces, one identifier
SharedLots ==
    { Lot(<< Space(<<"1">>, PolyAB), Space(<<"1">>, PolyBC) >>, << >>, n, SmallCamera) :
        n \in {2, StabilizationFrames} }

SharedInit == InitFrom(SharedLots) /\ MonitorIdle

\* the classifier constructed on that lot
SharedSpec == SharedInit /\ [][Next]_vars

\* the records of space i after a classify call are what the update of space i
\* alone makes of them, from its own pixel count of the frame
OwnUpdate(i) ==
    LET pos == car_park_positions[i]
        count == space_details'[PlaceOf(sorted_positions', i)].pixel_count
        r == ProcessSpace(pos, count, threshold', stabilization_frames,
                          spot_stable_status_buffer, spot_candidate_status_buffer)
    IN  /\ spot_stable_status_buffer'[InitKey(pos)] = r.stable_buf[InitKey(pos)]
        /\ spot_candidate_status_buffer'[InitKey(pos)] = r.cand_buf[InitKey(pos)]

(* C25: a classify call leaves the records of every space as the update of
   that space alone makes them, whatever the other spaces show, so the
   candidate counter of a space advances by at most 1 in one call; and the
   records created by the constructor are neither removed nor created anew. *)
C25_PerSpaceIsolation ==
    [][ /\ DOMAIN spot_stable_status_buffer' = DOMAIN spot_stable_status_buffer
        /\ DOMAIN spot_candidate_status_buffer' = DOMAIN spot_candidate_status_buffer
        /\ \A i \in Spaces :
             /\ OwnUpdate(i)
             /\ CandidateOf(i)'.counter <= CandidateOf(i).counter + 1 ]_vars

----------------------------------------------------------------------------
(* Claims about the statistics *)

\* the entries of space_details are the loaded spaces, each once, in the
\* processing order
EachSpaceOnce ==
    /\ Len(sorted_positions) = Len(car_park_positions)
    /\ \A i \in 1 .. Len(car_park_positions) :
         Cardinality({k \in 1 .. Len(sorted_positions) : sorted_positions[k] = i}) = 1
    /\ \A k \in 1 .. Len(stats.space_details) :
         /\ stats.space_details[k].points = car_park_positions[sorted_positions[k]].points
         /\ stats.space_details[k].id = ClassifyKey(car_park_positions[sorted_positions[k]])

(* C27: in the stats every classify call returns, empty_spaces +
   occupied_spaces = total_spaces = the number of entries of space_details =
   the number of loaded spaces, every loaded space has exactly one entry, and
   occupancy_rate is occupied_spaces / total_spaces * 100, or 0 for a lot
   without spaces. *)
C27_StatisticsConsistent ==
    stats.returned =>
      /\ stats.empty_spaces + stats.occupied_spaces = stats.total_spaces
      /\ stats.total_spaces = Len(stats.space_details)
      /\ stats.total_spaces = Len(car_park_positions)
      /\ EachSpaceOnce
      /\ stats.empty_spaces =
           Cardinality({k \in 1 .. Len(stats.space_details) : stats.space_details[k].is_empty})
      /\ IF stats.total_spaces = 0
         THEN stats.occupancy_rate.num = 0
         ELSE /\ stats.occupancy_rate.num = stats.occupied_spaces * 100
              /\ stats.occupancy_rate.den = stats.total_spaces

\* a call has returned one space of two as occupied
C27_Witness ==
    /\ stats.returned
    /\ stats.total_spaces = 2
    /\ stats.occupied_spaces = 1
    /\ stats.occupancy_rate = [num |-> 100, den |-> 2]

----------------------------------------------------------------------------
(* Claims about the first frames and the counters *)

\* classify has returned, and fewer than N calls were made since construction
ColdStart == stats.returned /\ classify_calls < stabilization_frames

(* C28: after each of the first N - 1 classify calls every space that has an
   identifier is reported Empty; when there are route points the planner is
   handed the space that comes first in the identifier ordering, and it is
   given no obstacle. *)
C28_ColdStart ==
    ColdStart =>
      /\ \A k \in 1 .. Len(space_details) :
           car_park_positions[sorted_positions[k]].has_id
              => space_details[k].status = "Empty"
      /\ (route_points # << >> /\ Identified # {}) =>
           /\ route_target # 0
           /\ sorted_positions[route_target] \in Identified
           /\ \A j \in Identified \ {sorted_positions[route_target]} :
                OrderedBefore(sorted_positions[route_target], j)
      /\ PlannerObstacles = << >>

(* C29: after every classify call the candidate counter of every record is at
   least 0 and less than N, and a counter above 0 goes with a candidate status
   that differs from the stable status. *)
C29_CounterBounds ==
    \A key \in DOMAIN spot_candidate_status_buffer :
        /\ spot_candidate_status_buffer[key].counter >= 0
        /\ spot_candidate_status_buffer[key].counter < stabilization_frames
        /\ spot_candidate_status_buffer[key].counter > 0
             => spot_candidate_status_buffer[key].new_status # spot_stable_status_buffer[key]

\* a candidate is one frame short of promotion
C29_Witness ==
    /\ stats.returned
    /\ stabilization_frames = StabilizationFrames
    /\ \E i \in Identified :
         /\ CandidateOf(i).counter = stabilization_frames - 1
         /\ CandidateOf(i).new_status = "Occupied"

----------------------------------------------------------------------------
(* The next identifier of the two tools, on the same lots *)

\* the spaces a lot may hold when its next identifier is asked for
MaxIdSpaces == 4

\* identifiers: numbers, a number with a leading zero, zero, names
IdStrings == { <<"0">>, <<"1">>, <<"2">>, <<"3">>, <<"0", "1">>, <<"a">>, <<"1", "a">> }

\* lots of up to three spaces with these identifiers, repeated ones included
IdLists ==
    { << >> } \cup { << a >> : a \in IdStrings }
      \cup { << a, b >> : a \in IdStrings, b \in IdStrings }
      \cup { << a, b, c >> : a \in IdStrings, b \in IdStrings, c \in IdStrings }

\* the spaces with the identifiers given, rectangles away from the click points
LotOf(ids) == [k \in 1 .. Len(ids) |-> Space(ids[k], DenoterRect(<<500 * k, 500>>))]

\* both tools hold the same lot, in mode 'p'
NextIdInit ==
    /\ positions_file = AbsentFile
    /\ \E ids \in IdLists :
         /\ denoter = DenoterLoaded(LotOf(ids), << >>)
         /\ generator = GeneratorLoaded(LotOf(ids), << >>)
    /\ NoClassifier

\* a left click of the denoter in mode 'p': the rectangle gets _get_next_id()
AddByDenoter ==
    /\ Len(denoter.car_park_positions) < MaxIdSpaces
    /\ \E pt \in ClickPoints : \E outcome \in {LeftClick(denoter, pt)} :
         /\ denoter' = outcome.self
         /\ positions_file' = SavedFile(outcome.self.car_park_positions,
                                        outcome.self.route_points)
    /\ UNCHANGED << denoter_frame, events >>

\* a left click of the generator in mode 'p': the rectangle gets get_next_id()
AddByGenerator ==
    /\ Len(generator.car_park_positions) < MaxIdSpaces
    /\ \E pt \in ClickPoints : generator' = GeneratorLeftClick(generator, pt)
    /\ UNCHANGED << positions_file, generator_frame, events >>

NextIdNext == AddByDenoter \/ AddByGenerator

NextIdSpec == NextIdInit /\ [][NextIdNext]_vars

\* the numeric values of the identifiers that are strings of decimal digits
NumericValues(positions) ==
    {DigitsVal(positions[i].id) :
       i \in {j \in 1 .. Len(positions) : IsDigit(positions[j].id)}}

\* the smallest integer from 1 on that is no such value
LeastFree(positions) ==
    CHOOSE n \in 1 .. Len(positions) + 1 :
        /\ n \notin NumericValues(positions)
        /\ \A m \in 1 .. n - 1 : m \in NumericValues(positions)

(* C26: on every lot CoordinateDenoter._get_next_id and the generator's
   get_next_id return the smallest integer from 1 on that is not the numeric
   value of an identifier of the lot, gaps filled first, and so the same
   number. *)
C26_NextIdentifier ==
    \A lot \in {denoter.car_park_positions, generator.car_park_positions} :
        /\ GetNextIdDenoter(lot) = LeastFree(lot)
        /\ GetNextId(lot) = Str(LeastFree(lot))
        /\ GetNextId(lot) = Str(GetNextIdDenoter(lot))

\* each tool has filled the gap between 1 and 3 with a fourth space
C26_Witness ==
    /\ Len(denoter.car_park_positions) = 4
    /\ Len(generator.car_park_positions) = 4
    /\ denoter.car_park_positions[1].id = <<"1">>
    /\ denoter.car_park_positions[2].id = <<"3">>
    /\ denoter.car_park_positions[3].id = <<"0", "1">>
    /\ denoter.car_park_positions[4].id = <<"2">>
    /\ generator.car_park_positions[4].id = <<"2">>

----------------------------------------------------------------------------
(* Claims about the identifier being edited *)

(* C30: in CoordinateDenoter, whenever is_editing_id is true, edit_target_index
   is an index into car_park_positions (0 <= index < number of spaces) and the
   space at it is the one that was clicked to start the edit. *)
C30_EditTargetValid ==
    (denoter.ran /\ denoter.is_editing_id) =>
        /\ denoter.edit_target_index >= 0
        /\ denoter.edit_target_index < Len(denoter.car_park_positions)
        /\ denoter.car_park_positions[denoter.edit_target_index + 1].points
             = denoter.edit_clicked

====
